---- MODULE Spec2Model ----
(***************************************************************************)
(* Model of the PromQL parse client (src/src/services/parseClient.ts):     *)
(* parseQuery, buildAST, the matcher / grouping extractors and the         *)
(* duration parser.                                                        *)
(*                                                                         *)
(* Text is a sequence of one-character strings, so that slicing is the     *)
(* slicing the code does.  Millisecond amounts are exact integers kept in  *)
(* two limbs (hi * Base + lo), because 31536000000 exceeds the range of    *)
(* the model checker's integers; below 2^53 a JavaScript number is exact.  *)
(***************************************************************************)
EXTENDS Integers, Sequences, FiniteSets, TLC

VARIABLES
  query,        \* the query string handed to parseQuery / the extractors
  tree,         \* the concrete syntax node the operation works on
  fault,        \* what throws during the call: nothing, the producer, the builder
  durationStr,  \* the argument of parseDuration
  pc,           \* "call" before the operation has run, "done" after
  result,       \* the value the operation returned
  buildCalls,   \* number of times parseQuery invoked buildAST
  ast,          \* the ParsedNode handed to explainQuery
  log,          \* the calls made so far: function, argument, result
  locals        \* parseDuration's total and regex cursor when its last call ended

vars == <<query, tree, fault, durationStr, pc, result, buildCalls, ast, log, locals>>

\* ------------------------------------------------------------------------
\* Bounds of the model
\* ------------------------------------------------------------------------
MaxLen == 4

\* ------------------------------------------------------------------------
\* Exact non-negative integers in two limbs
\* ------------------------------------------------------------------------
Base == 1000 * 1000

Num(h, l) == [hi |-> h + (l \div Base), lo |-> l % Base]

Zero == Num(0, 0)

Add(a, b) == Num(a.hi + b.hi, a.lo + b.lo)

Scale(a, d) == Num(a.hi * d, a.lo * d)

RECURSIVE Times(_, _)
Times(a, k) ==
  IF k = 0 THEN Zero
  ELSE Add(Scale(Times(a, k \div 10), 10), Scale(a, k % 10))

IsZero(a) == a.hi = 0 /\ a.lo = 0

\* ------------------------------------------------------------------------
\* parseDuration
\* ------------------------------------------------------------------------
Digits == {"0", "1", "2", "3", "4", "5", "6", "7", "8", "9"}

DigitValue(c) ==
  CASE c = "0" -> 0 [] c = "1" -> 1 [] c = "2" -> 2 [] c = "3" -> 3
    [] c = "4" -> 4 [] c = "5" -> 5 [] c = "6" -> 6 [] c = "7" -> 7
    [] c = "8" -> 8 [] c = "9" -> 9

\* parseInt(s, 10) of a string of decimal digits
RECURSIVE parseInt(_)
parseInt(s) ==
  IF s = <<>> THEN 0
  ELSE parseInt(SubSeq(s, 1, Len(s) - 1)) * 10 + DigitValue(s[Len(s)])

\* the units table of parseDuration, in milliseconds
units ==
  [ms |-> Num(0, 1),
   s  |-> Num(0, 1000),
   m  |-> Num(0, 60 * 1000),
   h  |-> Num(0, 60 * 60 * 1000),
   d  |-> Num(0, 24 * 60 * 60 * 1000),
   w  |-> Num(0, 7 * 24 * 60 * 60 * 1000),
   y  |-> Times(Num(0, 24 * 60 * 60 * 1000), 365)]

\* the alternatives of the regex's second group, in the order it tries them
UnitAlternativesMsLast ==
  << [name |-> "s",  chars |-> <<"s">>],
     [name |-> "m",  chars |-> <<"m">>],
     [name |-> "ms", chars |-> <<"m", "s">>],
     [name |-> "h",  chars |-> <<"h">>],
     [name |-> "d",  chars |-> <<"d">>],
     [name |-> "w",  chars |-> <<"w">>],
     [name |-> "y",  chars |-> <<"y">>] >>

UnitAlternatives ==
  << [name |-> "ms", chars |-> <<"m", "s">>],
     [name |-> "s",  chars |-> <<"s">>],
     [name |-> "m",  chars |-> <<"m">>],
     [name |-> "h",  chars |-> <<"h">>],
     [name |-> "d",  chars |-> <<"d">>],
     [name |-> "w",  chars |-> <<"w">>],
     [name |-> "y",  chars |-> <<"y">>] >>

\* does the text continue with the characters cs at (1-based) position p
StartsWithAt(s, p, cs) ==
  /\ p + Len(cs) - 1 <= Len(s)
  /\ \A i \in 1..Len(cs) : s[p + i - 1] = cs[i]

\* index into UnitAlternatives of the first alternative matching at p, 0 if none
UnitAt(s, p) ==
  LET hits == {a \in 1..Len(UnitAlternatives) :
                 StartsWithAt(s, p, UnitAlternatives[a].chars)}
  IN IF hits = {} THEN 0
     ELSE CHOOSE a \in hits : \A b \in hits : a <= b

\* number of consecutive digits starting at position p
RECURSIVE DigitRun(_, _)
DigitRun(s, p) ==
  IF p <= Len(s) /\ s[p] \in Digits THEN 1 + DigitRun(s, p + 1) ELSE 0

\* (\d+)(ms|s|m|h|d|w|y) attempted at position p: \d+ is greedy and gives
\* digits back until a unit alternative follows.
MatchAt(s, p) ==
  LET ns == {n \in 1..DigitRun(s, p) : UnitAt(s, p + n) # 0}
  IN IF ns = {} THEN [found |-> FALSE]
     ELSE LET n == CHOOSE x \in ns : \A z \in ns : z <= x
              u == UnitAlternatives[UnitAt(s, p + n)]
          IN [found |-> TRUE,
              digits |-> SubSeq(s, p, p + n - 1),
              unit |-> u.name,
              lastIndex |-> p + n + Len(u.chars)]

\* regex.exec(durationStr) with the /g flag, resuming at lastIndex
RECURSIVE Exec(_, _)
Exec(s, lastIndex) ==
  IF lastIndex > Len(s) THEN [found |-> FALSE]
  ELSE LET m == MatchAt(s, lastIndex)
       IN IF m.found THEN m ELSE Exec(s, lastIndex + 1)

\* the while loop of parseDuration: total after scanning from lastIndex
RECURSIVE DurationLoop(_, _, _)
DurationLoop(s, lastIndex, total) ==
  LET match == Exec(s, lastIndex)
  IN IF ~match.found THEN total
     ELSE DurationLoop(s, match.lastIndex,
                       Add(total, Times(units[match.unit], parseInt(match.digits))))

DefaultRange == Num(0, 300000)

parseDurationNoDefault(s) == DurationLoop(s, 1, Zero)

parseDuration(s) ==
  LET total == DurationLoop(s, 1, Zero)
  IN IF IsZero(total) THEN DefaultRange ELSE total

\* ------------------------------------------------------------------------
\* Concrete syntax trees (the SyntaxNode interface of the parser library)
\* ------------------------------------------------------------------------
\* A concrete node is [name, isError, from, to, children]: type.name,
\* type.isError, the half-open range into the query, the child nodes in
\* source order.
Null == [null |-> TRUE]

\* node.firstChild
firstChild(node) ==
  IF node.children = <<>> THEN Null ELSE node.children[1]

\* the kinds the grammar puts in its group Expr: the alternatives of an
\* expression
ExprGroup ==
  {"AggregateExpr", "BinaryExpr", "FunctionCall", "MatrixSelector",
   "NumberLiteral", "NumberDurationLiteral", "OffsetExpr", "ParenExpr",
   "StringLiteral", "SubqueryExpr", "UnaryExpr", "VectorSelector",
   "StepInvariantExpr"}

\* NodeType.is(name): the name of the type, or the name of one of its groups
typeIs(node, name) ==
  node.name = name \/ (name = "Expr" /\ node.name \in ExprGroup)

\* getChild matching the name of the type only
getChildByNameOnly(node, name) ==
  LET hits == {i \in 1..Len(node.children) : node.children[i].name = name}
  IN IF hits = {} THEN Null
     ELSE node.children[CHOOSE i \in hits : \A j \in hits : i <= j]

\* node.getChild(name): the first direct child whose type is name, a kind or
\* a group of kinds
getChild(node, name) ==
  LET hits == {i \in 1..Len(node.children) : typeIs(node.children[i], name)}
  IN IF hits = {} THEN Null
     ELSE node.children[CHOOSE i \in hits : \A j \in hits : i <= j]

Min(a, b) == IF a < b THEN a ELSE b
Max(a, b) == IF a > b THEN a ELSE b

\* String.prototype.slice(start, end) on a sequence of characters
StrSlice(s, start, end) ==
  LET n == Len(s)
      a == IF start < 0 THEN Max(n + start, 0) ELSE Min(start, n)
      b == IF end < 0 THEN Max(n + end, 0) ELSE Min(end, n)
  IN IF a < b THEN SubSeq(s, a + 1, b) ELSE <<>>

\* query.slice(node.from, node.to)
SliceOf(node, q) == StrSlice(q, node.from, node.to)

\* ------------------------------------------------------------------------
\* parseLabelMatchers, parseGroupingLabels
\* ------------------------------------------------------------------------
MatcherKinds == {"LabelMatcher", "UnquotedLabelMatcher", "QuotedLabelMatcher"}

EqlSingle == <<"=">>
Neq == <<"!", "=">>
EqlRegex == <<"=", "~">>
NeqRegex == <<"!", "~">>

\* the matchType of one matcher node whose name and value are present
matchTypeOfNoNeqRegex(matchOp, q) ==
  IF matchOp # Null /\ SliceOf(matchOp, q) \in {Neq, EqlRegex}
  THEN SliceOf(matchOp, q)
  ELSE EqlSingle

matchTypeOf(matchOp, q) ==
  IF matchOp # Null /\ SliceOf(matchOp, q) \in {Neq, EqlRegex, NeqRegex}
  THEN SliceOf(matchOp, q)
  ELSE EqlSingle

\* body of the do-while loop for the child the cursor is on: the matchers
\* this child appends
matchersOfChild(child, q) ==
  IF child.name \in MatcherKinds
  THEN LET labelName == getChild(child, "LabelName")
           matchOp == getChild(child, "MatchOp")
           stringLiteral == getChild(child, "StringLiteral")
       IN IF labelName # Null /\ stringLiteral # Null
          THEN << [name |-> SliceOf(labelName, q),
                   value |-> StrSlice(SliceOf(stringLiteral, q), 1, -1),
                   type |-> matchTypeOf(matchOp, q)] >>
          ELSE <<>>
  ELSE <<>>

RECURSIVE matchersFrom(_, _, _)
matchersFrom(node, i, q) ==
  IF i > Len(node.children) THEN <<>>
  ELSE matchersOfChild(node.children[i], q) \o matchersFrom(node, i + 1, q)

\* the loop leaving at the first child that appends nothing
RECURSIVE matchersUntilSkip(_, _, _)
matchersUntilSkip(node, i, q) ==
  IF i > Len(node.children) \/ matchersOfChild(node.children[i], q) = <<>>
  THEN <<>>
  ELSE matchersOfChild(node.children[i], q) \o matchersUntilSkip(node, i + 1, q)

parseLabelMatchersUntilSkip(node, q) == matchersUntilSkip(node, 1, q)

parseLabelMatchers(node, q) == matchersFrom(node, 1, q)

RECURSIVE labelsFrom(_, _, _)
labelsFrom(node, i, q) ==
  IF i > Len(node.children) THEN <<>>
  ELSE (IF node.children[i].name = "LabelName"
        THEN <<SliceOf(node.children[i], q)>> ELSE <<>>)
       \o labelsFrom(node, i + 1, q)

\* the loop pushing a label only when it is not in the list yet
RECURSIVE labelsFromDedup(_, _, _, _)
labelsFromDedup(node, i, q, acc) ==
  IF i > Len(node.children) THEN acc
  ELSE LET t == SliceOf(node.children[i], q)
       IN labelsFromDedup(node, i + 1, q,
            IF node.children[i].name = "LabelName"
               /\ \A k \in 1..Len(acc) : acc[k] # t
            THEN Append(acc, t) ELSE acc)

parseGroupingLabelsDedup(node, q) == labelsFromDedup(node, 1, q, <<>>)

\* the loop pushing the slice of every child, whatever its kind
RECURSIVE labelsFromAnyKind(_, _, _)
labelsFromAnyKind(node, i, q) ==
  IF i > Len(node.children) THEN <<>>
  ELSE <<SliceOf(node.children[i], q)>> \o labelsFromAnyKind(node, i + 1, q)

parseGroupingLabelsAnyKind(node, q) == labelsFromAnyKind(node, 1, q)

parseGroupingLabels(node, q) == labelsFrom(node, 1, q)

\* ------------------------------------------------------------------------
\* buildAST
\* ------------------------------------------------------------------------
exprTypes ==
  {"Expr", "AggregateExpr", "FunctionCall", "BinaryExpr",
   "VectorSelector", "MatrixSelector", "SubqueryExpr",
   "NumberLiteral", "NumberDurationLiteral", "StringLiteral",
   "ParenExpr", "UnaryExpr", "StepInvariantExpr"}

isExpressionNode(node) == node.name \in exprTypes

UpperCase == <<"A", "B", "C", "D", "E", "F", "G", "H", "I", "J", "K", "L", "M",
               "N", "O", "P", "Q", "R", "S", "T", "U", "V", "W", "X", "Y", "Z">>
LowerCase == <<"a", "b", "c", "d", "e", "f", "g", "h", "i", "j", "k", "l", "m",
               "n", "o", "p", "q", "r", "s", "t", "u", "v", "w", "x", "y", "z">>

\* String.prototype.toLowerCase
toLowerCase(s) ==
  [i \in 1..Len(s) |->
     IF \E k \in 1..26 : UpperCase[k] = s[i]
     THEN LowerCase[CHOOSE k \in 1..26 : UpperCase[k] = s[i]]
     ELSE s[i]]

Unknown == <<"u", "n", "k", "n", "o", "w", "n">>

\* kinds of binary operator tokens listed in the BinaryExpr case
BinaryOpKinds ==
  {"Add", "Sub", "Mul", "Div", "Mod", "Pow", "Eql", "Neq", "Lss", "Lte",
   "Gtr", "Gte", "And", "Or", "Unless"}

\* child.type.name.includes('Op'), over the kind names that occur in a tree
nameIncludesOp(name) == name \in {"AggregateOp", "MatchOp", "BinaryOp", "UnaryOp"}

RECURSIVE buildAST(_, _)

\* the loop "while (child) { if (isExpressionNode(child)) push(buildAST(child)) }"
RECURSIVE buildExpressionChildren(_, _, _)
buildExpressionChildren(kids, i, q) ==
  IF i > Len(kids) THEN <<>>
  ELSE (IF isExpressionNode(kids[i]) THEN <<buildAST(kids[i], q)>> ELSE <<>>)
       \o buildExpressionChildren(kids, i + 1, q)

\* case 'PromQL', 'Expr'
buildWrapper(node, q) ==
  LET child == firstChild(node)
  IN IF child # Null THEN buildAST(child, q)
     ELSE [type |-> "error", text |-> SliceOf(node, q)]

\* case 'AggregateExpr' looking for the grouping labels among the children of
\* the aggregation itself, not under its modifier
buildAggregateExprDirectLabels(node, q) ==
  LET aggOp == getChild(node, "AggregateOp")
      modifier == getChild(node, "AggregateModifier")
      body == getChild(node, "FunctionCallBody")
      labels == getChild(node, "GroupingLabels")
      child == IF body # Null THEN firstChild(body) ELSE Null
  IN [type |-> "aggregation",
      text |-> SliceOf(node, q),
      op |-> IF aggOp # Null THEN toLowerCase(SliceOf(aggOp, q)) ELSE Unknown,
      grouping |-> IF labels # Null THEN parseGroupingLabels(labels, q) ELSE <<>>,
      without |-> IF modifier # Null THEN getChild(modifier, "Without") # Null ELSE FALSE,
      children |-> IF child # Null /\ isExpressionNode(child)
                   THEN <<buildAST(child, q)>> ELSE <<>>]

\* case 'AggregateExpr'
buildAggregateExpr(node, q) ==
  LET aggOp == getChild(node, "AggregateOp")
      modifier == getChild(node, "AggregateModifier")
      body == getChild(node, "FunctionCallBody")
      labels == IF modifier # Null THEN getChild(modifier, "GroupingLabels") ELSE Null
      child == IF body # Null THEN firstChild(body) ELSE Null
  IN [type |-> "aggregation",
      text |-> SliceOf(node, q),
      op |-> IF aggOp # Null THEN toLowerCase(SliceOf(aggOp, q)) ELSE Unknown,
      grouping |-> IF labels # Null THEN parseGroupingLabels(labels, q) ELSE <<>>,
      without |-> IF modifier # Null THEN getChild(modifier, "Without") # Null ELSE FALSE,
      children |-> IF child # Null /\ isExpressionNode(child)
                   THEN <<buildAST(child, q)>> ELSE <<>>]

\* case 'FunctionCall' taking only the first child of the body, as the
\* aggregation case does
buildFunctionCallFirstChildOnly(node, q) ==
  LET funcId == getChild(node, "FunctionIdentifier")
      body == getChild(node, "FunctionCallBody")
      child == IF body # Null THEN firstChild(body) ELSE Null
  IN [type |-> "call",
      text |-> SliceOf(node, q),
      funcName |-> IF funcId # Null THEN SliceOf(funcId, q) ELSE Unknown,
      args |-> IF child # Null /\ isExpressionNode(child)
               THEN <<buildAST(child, q)>> ELSE <<>>]

\* case 'FunctionCall'
\* case 'FunctionCall' taking the function's name as the text of the call
buildFunctionCallTextIsName(node, q) ==
  LET funcId == getChild(node, "FunctionIdentifier")
      body == getChild(node, "FunctionCallBody")
  IN [type |-> "call",
      text |-> IF funcId # Null THEN SliceOf(funcId, q) ELSE Unknown,
      funcName |-> IF funcId # Null THEN SliceOf(funcId, q) ELSE Unknown,
      args |-> IF body # Null THEN buildExpressionChildren(body.children, 1, q) ELSE <<>>]

buildFunctionCall(node, q) ==
  LET funcId == getChild(node, "FunctionIdentifier")
      body == getChild(node, "FunctionCallBody")
  IN [type |-> "call",
      text |-> SliceOf(node, q),
      funcName |-> IF funcId # Null THEN SliceOf(funcId, q) ELSE Unknown,
      args |-> IF body # Null THEN buildExpressionChildren(body.children, 1, q) ELSE <<>>]

\* the BinaryExpr loop taking every child that is no expression for the
\* operator
buildBinaryExprAnyTokenIsOp(node, q) ==
  LET RECURSIVE opFromAnyToken(_, _, _)
      opFromAnyToken(kids, i, op) ==
        IF i > Len(kids) THEN op
        ELSE opFromAnyToken(kids, i + 1,
               IF ~isExpressionNode(kids[i]) THEN SliceOf(kids[i], q) ELSE op)
  IN [type |-> "binaryExpr",
      text |-> SliceOf(node, q),
      op |-> opFromAnyToken(node.children, 1, <<>>),
      children |-> buildExpressionChildren(node.children, 1, q)]

\* the op left by the BinaryExpr loop: the slice of the last operator token
RECURSIVE binaryOpFrom(_, _, _, _)
binaryOpFrom(kids, i, q, op) ==
  IF i > Len(kids) THEN op
  ELSE binaryOpFrom(kids, i + 1, q,
         IF ~isExpressionNode(kids[i])
            /\ (nameIncludesOp(kids[i].name) \/ kids[i].name \in BinaryOpKinds)
         THEN SliceOf(kids[i], q) ELSE op)

\* case 'BinaryExpr'
buildBinaryExpr(node, q) ==
  [type |-> "binaryExpr",
   text |-> SliceOf(node, q),
   op |-> binaryOpFrom(node.children, 1, q, <<>>),
   children |-> buildExpressionChildren(node.children, 1, q)]

\* case 'VectorSelector'
buildVectorSelector(node, q) ==
  LET identifier == IF getChild(node, "Identifier") # Null
                    THEN getChild(node, "Identifier")
                    ELSE getChild(node, "MetricIdentifier")
      labelMatchersNode == getChild(node, "LabelMatchers")
  IN [type |-> "vectorSelector",
      text |-> SliceOf(node, q),
      name |-> IF identifier # Null THEN SliceOf(identifier, q) ELSE <<>>,
      matchers |-> IF labelMatchersNode # Null
                   THEN parseLabelMatchers(labelMatchersNode, q) ELSE <<>>]

\* case 'MatrixSelector' keeping a matrix selector around a function call
buildMatrixSelectorAroundCall(node, q) ==
  LET vectorSelector == getChild(node, "VectorSelector")
      durationNode == IF getChild(node, "Duration") # Null
                      THEN getChild(node, "Duration")
                      ELSE getChild(node, "NumberDurationLiteralInDurationContext")
      funcCall == getChild(node, "FunctionCall")
      range == IF durationNode # Null
               THEN parseDuration(SliceOf(durationNode, q)) ELSE DefaultRange
  IN IF vectorSelector # Null
     THEN LET vsAst == buildAST(vectorSelector, q)
          IN [type |-> "matrixSelector",
              text |-> SliceOf(node, q),
              name |-> vsAst.name,
              matchers |-> vsAst.matchers,
              range |-> range]
     ELSE IF funcCall # Null
     THEN [type |-> "matrixSelector",
           text |-> SliceOf(node, q),
           range |-> range,
           children |-> <<buildAST(funcCall, q)>>]
     ELSE [type |-> "matrixSelector", text |-> SliceOf(node, q)]

\* case 'MatrixSelector'
buildMatrixSelector(node, q) ==
  LET vectorSelector == getChild(node, "VectorSelector")
      durationNode == IF getChild(node, "Duration") # Null
                      THEN getChild(node, "Duration")
                      ELSE getChild(node, "NumberDurationLiteralInDurationContext")
      funcCall == getChild(node, "FunctionCall")
  IN IF vectorSelector # Null
     THEN LET vsAst == buildAST(vectorSelector, q)
          IN [type |-> "matrixSelector",
              text |-> SliceOf(node, q),
              name |-> vsAst.name,
              matchers |-> vsAst.matchers,
              range |-> IF durationNode # Null
                        THEN parseDuration(SliceOf(durationNode, q))
                        ELSE DefaultRange]
     ELSE IF funcCall # Null
     THEN buildAST(funcCall, q)
     ELSE [type |-> "matrixSelector", text |-> SliceOf(node, q)]

\* case 'SubqueryExpr'
buildSubqueryExpr(node, q) ==
  LET expr == getChild(node, "Expr")
  IN [type |-> "subquery",
      text |-> SliceOf(node, q),
      children |-> IF expr # Null THEN <<buildAST(expr, q)>> ELSE <<>>]

\* case 'NumberLiteral' putting the literal under a node of its own
buildNumberLiteralUnderNode(node, q) ==
  [type |-> "parenExpr",
   text |-> SliceOf(node, q),
   children |-> <<[type |-> "numberLiteral", text |-> SliceOf(node, q),
                   value |-> SliceOf(node, q)]>>]

\* case 'NumberLiteral', 'NumberDurationLiteral'
buildNumberLiteral(node, q) ==
  [type |-> "numberLiteral", text |-> SliceOf(node, q), value |-> SliceOf(node, q)]

\* case 'StringLiteral' removing the first and the last character only when
\* they are quotes
buildStringLiteralQuotesOnly(node, q) ==
  LET text == SliceOf(node, q)
      quotes == {"\"", "'"}
      from == IF Len(text) > 0 /\ text[1] \in quotes THEN 1 ELSE 0
      to == IF Len(text) > 0 /\ text[Len(text)] \in quotes THEN -1 ELSE Len(text)
  IN [type |-> "stringLiteral", text |-> text, value |-> StrSlice(text, from, to)]

\* case 'StringLiteral'
buildStringLiteral(node, q) ==
  [type |-> "stringLiteral",
   text |-> SliceOf(node, q),
   value |-> StrSlice(SliceOf(node, q), 1, -1)]

\* case 'ParenExpr'
buildParenExpr(node, q) ==
  LET inner == getChild(node, "Expr")
  IN [type |-> "parenExpr",
      text |-> SliceOf(node, q),
      children |-> IF inner # Null THEN <<buildAST(inner, q)>> ELSE <<>>]

RECURSIVE unaryOpFrom(_, _, _, _)
unaryOpFrom(kids, i, q, op) ==
  IF i > Len(kids) THEN op
  ELSE unaryOpFrom(kids, i + 1, q,
         IF kids[i].name \in {"Add", "Sub"} THEN SliceOf(kids[i], q) ELSE op)

RECURSIVE unaryChildrenFrom(_, _, _)
unaryChildrenFrom(kids, i, q) ==
  IF i > Len(kids) THEN <<>>
  ELSE (IF kids[i].name \notin {"Add", "Sub"} /\ isExpressionNode(kids[i])
        THEN <<buildAST(kids[i], q)>> ELSE <<>>)
       \o unaryChildrenFrom(kids, i + 1, q)

\* case 'UnaryExpr'
buildUnaryExpr(node, q) ==
  [type |-> "unaryExpr",
   text |-> SliceOf(node, q),
   op |-> unaryOpFrom(node.children, 1, q, <<>>),
   children |-> unaryChildrenFrom(node.children, 1, q)]

\* default case without the test for exactly one child
buildDefaultAlwaysWraps(node, q) ==
  LET children == buildExpressionChildren(node.children, 1, q)
  IN IF Len(children) > 0
     THEN [type |-> "error", text |-> SliceOf(node, q), children |-> children]
     ELSE [type |-> "error", text |-> SliceOf(node, q)]

\* default case
buildDefault(node, q) ==
  LET children == buildExpressionChildren(node.children, 1, q)
  IN IF Len(children) = 1 THEN children[1]
     ELSE IF Len(children) > 0
          THEN [type |-> "error", text |-> SliceOf(node, q), children |-> children]
          ELSE [type |-> "error", text |-> SliceOf(node, q)]

buildAST(node, q) ==
  CASE node.name \in {"PromQL", "Expr"} -> buildWrapper(node, q)
    [] node.name = "AggregateExpr" -> buildAggregateExpr(node, q)
    [] node.name = "FunctionCall" -> buildFunctionCall(node, q)
    [] node.name = "BinaryExpr" -> buildBinaryExpr(node, q)
    [] node.name = "VectorSelector" -> buildVectorSelector(node, q)
    [] node.name = "MatrixSelector" -> buildMatrixSelector(node, q)
    [] node.name = "SubqueryExpr" -> buildSubqueryExpr(node, q)
    [] node.name \in {"NumberLiteral", "NumberDurationLiteral"} -> buildNumberLiteral(node, q)
    [] node.name = "StringLiteral" -> buildStringLiteral(node, q)
    [] node.name = "ParenExpr" -> buildParenExpr(node, q)
    [] node.name = "UnaryExpr" -> buildUnaryExpr(node, q)
    [] OTHER -> buildDefault(node, q)

\* the nodes the case of this node hands to buildAST, in the order of the calls
RECURSIVE expressionNodesFrom(_, _)
expressionNodesFrom(kids, i) ==
  IF i > Len(kids) THEN <<>>
  ELSE (IF isExpressionNode(kids[i]) THEN <<kids[i]>> ELSE <<>>)
       \o expressionNodesFrom(kids, i + 1)

RECURSIVE unaryOperandsFrom(_, _)
unaryOperandsFrom(kids, i) ==
  IF i > Len(kids) THEN <<>>
  ELSE (IF kids[i].name \notin {"Add", "Sub"} /\ isExpressionNode(kids[i])
        THEN <<kids[i]>> ELSE <<>>)
       \o unaryOperandsFrom(kids, i + 1)

oneOrNone(child) == IF child # Null THEN <<child>> ELSE <<>>

recursiveCalls(node) ==
  CASE node.name \in {"PromQL", "Expr"} -> oneOrNone(firstChild(node))
    [] node.name = "AggregateExpr" ->
         LET body == getChild(node, "FunctionCallBody")
             child == IF body # Null THEN firstChild(body) ELSE Null
         IN IF child # Null /\ isExpressionNode(child) THEN <<child>> ELSE <<>>
    [] node.name = "FunctionCall" ->
         LET body == getChild(node, "FunctionCallBody")
         IN IF body # Null THEN expressionNodesFrom(body.children, 1) ELSE <<>>
    [] node.name = "BinaryExpr" -> expressionNodesFrom(node.children, 1)
    [] node.name = "MatrixSelector" ->
         IF getChild(node, "VectorSelector") # Null
         THEN <<getChild(node, "VectorSelector")>>
         ELSE oneOrNone(getChild(node, "FunctionCall"))
    [] node.name \in {"SubqueryExpr", "ParenExpr"} -> oneOrNone(getChild(node, "Expr"))
    [] node.name = "UnaryExpr" -> unaryOperandsFrom(node.children, 1)
    [] node.name \in {"VectorSelector", "NumberLiteral", "NumberDurationLiteral",
                      "StringLiteral"} -> <<>>
    [] OTHER -> expressionNodesFrom(node.children, 1)

\* every node buildAST is called on when it is called on node, one entry per
\* call
RECURSIVE invocations(_), invocationsOfAll(_, _)
invocations(node) == <<node>> \o invocationsOfAll(recursiveCalls(node), 1)

invocationsOfAll(nodes, i) ==
  IF i > Len(nodes) THEN <<>>
  ELSE invocations(nodes[i]) \o invocationsOfAll(nodes, i + 1)

\* ------------------------------------------------------------------------
\* parseQuery
\* ------------------------------------------------------------------------
\* A fault says what throws during the call: at = "none", "parse" (the
\* producer, parser.parse) or "build" (inside buildAST); isError tells whether
\* the thrown value is an Error, message is its message.
NoFault == [at |-> "none", isError |-> FALSE, message |-> ""]

\* a check that looks at the top node and its direct children only
iterateTopLevelOnly(node) ==
  node.isError \/ \E i \in 1..Len(node.children) : node.children[i].isError

\* cursor.iterate(enter): nodes are entered in document order; enter sets
\* hasError on an error node and returns false, which skips its children
RECURSIVE iterateFindsError(_)
iterateFindsError(node) ==
  IF node.isError THEN TRUE
  ELSE \E i \in 1..Len(node.children) : iterateFindsError(node.children[i])

\* the catch clause
catchClause(f) ==
  [success |-> FALSE,
   error |-> IF f.isError THEN f.message ELSE "Unknown parse error"]

\* parseQuery without the try / catch: a throw leaves the function
parseQueryNoCatch(q, t, f) ==
  IF f.at = "parse"
  THEN [result |-> [thrown |-> TRUE], buildCalls |-> 0]
  ELSE IF iterateFindsError(t)
  THEN [result |-> [success |-> FALSE, error |-> "Parse error in query"], buildCalls |-> 0]
  ELSE IF firstChild(t) = Null
  THEN [result |-> [success |-> FALSE, error |-> "Empty query"], buildCalls |-> 0]
  ELSE IF f.at = "build"
  THEN [result |-> [thrown |-> TRUE], buildCalls |-> 1]
  ELSE [result |-> [success |-> TRUE, ast |-> buildAST(firstChild(t), q)], buildCalls |-> 1]

\* parseQuery without the test of cursor.firstChild()
parseQueryNoEmptyCheck(q, t, f) ==
  IF f.at = "parse"
  THEN [result |-> catchClause(f), buildCalls |-> 0]
  ELSE IF iterateFindsError(t)
  THEN [result |-> [success |-> FALSE, error |-> "Parse error in query"], buildCalls |-> 0]
  ELSE IF f.at = "build"
  THEN [result |-> catchClause(f), buildCalls |-> 1]
  ELSE [result |-> [success |-> TRUE, ast |-> buildAST(t, q)], buildCalls |-> 1]

\* parseQuery(query), where t is the tree parser.parse(query) returns unless
\* it throws; the value is the ParseResult and the number of buildAST calls
parseQuery(q, t, f) ==
  IF f.at = "parse"
  THEN [result |-> catchClause(f), buildCalls |-> 0]
  ELSE IF iterateFindsError(t)
  THEN [result |-> [success |-> FALSE, error |-> "Parse error in query"], buildCalls |-> 0]
  ELSE IF firstChild(t) = Null
  THEN [result |-> [success |-> FALSE, error |-> "Empty query"], buildCalls |-> 0]
  ELSE IF f.at = "build"
  THEN [result |-> catchClause(f), buildCalls |-> 1]
  ELSE [result |-> [success |-> TRUE, ast |-> buildAST(firstChild(t), q)], buildCalls |-> 1]

\* ------------------------------------------------------------------------
\* Input trees: a shape is a tree of kinds and token texts; laying it out
\* gives the query text and every node's range into it, as the parser does.
\* ------------------------------------------------------------------------
Leaf(kind, tok) == [name |-> kind, isError |-> FALSE, tok |-> tok, children |-> <<>>]

Inner(kind, kids) == [name |-> kind, isError |-> FALSE, tok |-> <<>>, children |-> kids]

\* punctuation a node of this kind puts around and between its children
Open(kind) ==
  CASE kind \in {"ParenExpr", "GroupingLabels", "FunctionCallBody"} -> <<"(">>
    [] kind = "LabelMatchers" -> <<"{">>
    [] OTHER -> <<>>

Sep(kind) ==
  CASE kind \in {"LabelMatchers", "GroupingLabels", "FunctionCallBody"} -> <<",">>
    [] kind \in {"AggregateExpr", "AggregateModifier", "BinaryExpr", "OffsetExpr"} -> <<" ">>
    [] OTHER -> <<>>

Close(kind) ==
  CASE kind \in {"ParenExpr", "GroupingLabels", "FunctionCallBody"} -> <<")">>
    [] kind = "LabelMatchers" -> <<"}">>
    [] OTHER -> <<>>

\* punctuation the parent puts directly before and after a child of this kind
DurationKinds == {"Duration", "NumberDurationLiteralInDurationContext"}

Before(kind) == IF kind \in DurationKinds THEN <<"[">> ELSE <<>>

After(kind) == IF kind \in DurationKinds THEN <<"]">> ELSE <<>>

RECURSIVE ShapeText(_), JoinText(_, _, _)
ShapeText(s) ==
  IF s.children = <<>> THEN s.tok
  ELSE Open(s.name) \o JoinText(s.children, 1, Sep(s.name)) \o Close(s.name)

JoinText(kids, i, sep) ==
  IF i > Len(kids) THEN <<>>
  ELSE Before(kids[i].name) \o ShapeText(kids[i]) \o After(kids[i].name)
       \o (IF i < Len(kids) THEN sep ELSE <<>>)
       \o JoinText(kids, i + 1, sep)

RECURSIVE Layout(_, _), LayoutKids(_, _, _, _)
Layout(s, off) ==
  [name |-> s.name,
   isError |-> s.isError,
   from |-> off,
   to |-> off + Len(ShapeText(s)),
   children |-> LayoutKids(s.children, 1, off + Len(Open(s.name)), Len(Sep(s.name)))]

LayoutKids(kids, i, off, sepLen) ==
  IF i > Len(kids) THEN <<>>
  ELSE <<Layout(kids[i], off + Len(Before(kids[i].name)))>>
       \o LayoutKids(kids, i + 1,
                     off + Len(Before(kids[i].name)) + Len(ShapeText(kids[i]))
                         + Len(After(kids[i].name)) + sepLen,
                     sepLen)

\* sequences over S of length at most n
RECURSIVE SeqsOfLen(_, _)
SeqsOfLen(S, n) ==
  IF n = 0 THEN {<<>>}
  ELSE {Append(q, x) : q \in SeqsOfLen(S, n - 1), x \in S}

SeqsUpTo(S, n) == UNION {SeqsOfLen(S, k) : k \in 0..n}

\* nothing, or one element of S
Opt(S) == {<<>>} \cup {<<x>> : x \in S}

\* a node of this kind with these children; without children its text is its
\* own punctuation
NodeOf(kind, kids) ==
  IF kids = <<>> THEN Leaf(kind, Open(kind) \o Close(kind)) ELSE Inner(kind, kids)

\* ------------------------------------------------------------------------
\* Calling parseDuration on an arbitrary string
\* ------------------------------------------------------------------------
DurationChars == {"0", "1", "3", "5", "s", "m", "h", "d", "w", "y", "x"}

RECURSIVE StringsOfLen(_, _)
StringsOfLen(chars, n) ==
  IF n = 0 THEN {<<>>}
  ELSE {Append(s, c) : s \in StringsOfLen(chars, n - 1), c \in chars}

StringsUpTo(chars, n) == UNION {StringsOfLen(chars, k) : k \in 0..n}

NoTree == [name |-> "", isError |-> FALSE, from |-> 0, to |-> 0, children |-> <<>>]

NoResult == [pending |-> TRUE]

NoAst == [pending |-> TRUE]

\* a fresh call of parseDuration: total = 0, the new regex starts at the
\* first character
NoLocals == [total |-> Zero, lastIndex |-> 1]

InitDuration ==
  /\ durationStr \in StringsUpTo(DurationChars, MaxLen)
  /\ query = <<>>
  /\ tree = NoTree
  /\ fault = NoFault
  /\ pc = "call"
  /\ result = NoResult
  /\ buildCalls = 0
  /\ ast = NoAst
  /\ log = <<>>
  /\ locals = NoLocals

CallParseDuration ==
  /\ pc = "call"
  /\ result' = parseDuration(durationStr)
  /\ pc' = "done"
  /\ UNCHANGED <<query, tree, fault, durationStr, buildCalls>>
  /\ UNCHANGED <<ast, log, locals>>

NextDuration == CallParseDuration

SpecDuration == InitDuration /\ [][NextDuration]_vars

\* ------------------------------------------------------------------------
\* C6, C7: what parseDuration computes
\* ------------------------------------------------------------------------
\* Unit table as the specification states it, in milliseconds.
TableMs(u) ==
  CASE u = "ms" -> Num(0, 1)
    [] u = "s" -> Num(0, 1000)
    [] u = "m" -> Num(0, 60000)
    [] u = "h" -> Num(0, 3600000)
    [] u = "d" -> Num(0, 86400000)
    [] u = "w" -> Num(0, 604800000)
    [] u = "y" -> Num(31536, 0)

UnitLetters == {"s", "m", "h", "d", "w", "y"}

\* An occurrence of <integer><unit> is a maximal run of digits directly
\* followed by a unit; it is identified by the position of its last digit.
IsLastDigitOfOccurrence(s, j) ==
  /\ s[j] \in Digits
  /\ j < Len(s)
  /\ s[j + 1] \in UnitLetters

OccurrenceUnit(s, j) ==
  IF s[j + 1] = "m" /\ j + 2 <= Len(s) /\ s[j + 2] = "s" THEN "ms"
  ELSE s[j + 1]

\* value of the digit run that ends at position j: digit at j, plus ten
\* times the value of the run ending at j - 1
RECURSIVE RunValueEndingAt(_, _)
RunValueEndingAt(s, j) ==
  IF j = 0 \/ s[j] \notin Digits THEN 0
  ELSE DigitValue(s[j]) + 10 * RunValueEndingAt(s, j - 1)

RECURSIVE OccurrenceSum(_, _)
OccurrenceSum(s, j) ==
  IF j = 0 THEN Zero
  ELSE IF IsLastDigitOfOccurrence(s, j)
       THEN Add(OccurrenceSum(s, j - 1),
                Times(TableMs(OccurrenceUnit(s, j)), RunValueEndingAt(s, j)))
       ELSE OccurrenceSum(s, j - 1)

ExpectedTotal(s) == OccurrenceSum(s, Len(s))

\* C6: whenever some <integer><unit> occurrence contributes, parseDuration
\* returns the sum of integer * unitMilliseconds over the occurrences, with
\* ms read as milliseconds; 5m = 300000, 1h30m = 5400000, 5m30s = 330000.
C6_DurationIsSumOfOccurrences ==
  /\ (pc = "done" /\ ~IsZero(ExpectedTotal(durationStr)))
        => result = ExpectedTotal(durationStr)
  /\ pc = "done" =>
       /\ parseDuration(<<"5", "m">>) = Num(0, 300000)
       /\ parseDuration(<<"1", "h", "3", "0", "m">>) = Num(5, 400000)
       /\ parseDuration(<<"5", "m", "3", "0", "s">>) = Num(0, 330000)
       /\ parseDuration(<<"1", "y">>) = Num(31536, 0)

\* a compound literal with junk in between and a millisecond part was summed
C6_Witness ==
  /\ pc = "done"
  /\ durationStr = <<"1", "m", "x", "5">>
  /\ result = Num(0, 60000)

C6_WitnessMs ==
  /\ pc = "done"
  /\ durationStr = <<"5", "m", "s">>
  /\ result = Num(0, 5)

\* C7: parseDuration never returns 0; with no occurrence, or a total of 0,
\* it returns the default 300000.
C7_DurationPositiveOrDefault ==
  pc = "done" =>
    /\ result.hi >= 0 /\ result.lo >= 0 /\ result.lo < Base
    /\ ~IsZero(result)
    /\ IsZero(ExpectedTotal(durationStr)) => result = Num(0, 300000)

\* the total of "0s" is 0 and the default was returned
C7_Witness ==
  /\ pc = "done"
  /\ durationStr = <<"0", "s">>
  /\ result = Num(0, 300000)

\* ------------------------------------------------------------------------
\* Calling parseLabelMatchers on a label-matchers container
\* ------------------------------------------------------------------------
LabelNameToks == {<<"s", "t", "a", "t", "u", "s">>,
                  <<"i", "n", "s", "t", "a", "n", "c", "e">>}

MatchOpToks == {EqlSingle, Neq, EqlRegex, NeqRegex, <<"=", "=">>}

StringToks == {<<"\"", "5", ".", ".", "\"">>, <<"\"", "a", "\"">>,
               <<"\"", "\"">>, <<"'", "a", "'">>, <<"\"">>}

LabelNames == {Leaf("LabelName", t) : t \in LabelNameToks}

\* one matcher of any of the matcher kinds, each part present or not
RichMatchers ==
  {NodeOf(k, n \o o \o v) :
     k \in MatcherKinds,
     n \in Opt(LabelNames),
     o \in Opt({Leaf("MatchOp", t) : t \in MatchOpToks}),
     v \in Opt({Leaf("StringLiteral", t) : t \in StringToks})}

\* children for the longer lists: matchers with or without name and value,
\* and a child of another kind that wraps a complete matcher
ListMatchers ==
  {NodeOf(k, n \o <<Leaf("MatchOp", EqlRegex)>> \o v) :
     k \in {"UnquotedLabelMatcher", "QuotedLabelMatcher"},
     n \in Opt(LabelNames),
     v \in Opt({Leaf("StringLiteral", <<"\"", "a", "\"">>)})}
  \cup
  {Inner("LabelMatchList",
         <<Leaf("LabelName", <<"s", "t", "a", "t", "u", "s">>),
           Leaf("MatchOp", EqlSingle),
           Leaf("StringLiteral", <<"\"", "a", "\"">>)>>)}

MaxMatchers == 3

MatcherContainers ==
  {NodeOf("LabelMatchers", <<m>>) : m \in RichMatchers}
  \cup {NodeOf("LabelMatchers", ms) : ms \in SeqsUpTo(ListMatchers, MaxMatchers)}

InitMatchers ==
  /\ \E s \in MatcherContainers :
       /\ tree = Layout(s, 0)
       /\ query = ShapeText(s)
  /\ durationStr = <<>>
  /\ fault = NoFault
  /\ pc = "call"
  /\ result = NoResult
  /\ buildCalls = 0
  /\ ast = NoAst
  /\ log = <<>>
  /\ locals = NoLocals

CallParseLabelMatchers ==
  /\ pc = "call"
  /\ result' = parseLabelMatchers(tree, query)
  /\ pc' = "done"
  /\ UNCHANGED <<query, tree, fault, durationStr, buildCalls>>
  /\ UNCHANGED <<ast, log, locals>>

NextMatchers == CallParseLabelMatchers

SpecMatchers == InitMatchers /\ [][NextMatchers]_vars

\* the source text a node covers
TextOf(node) == SubSeq(query, node.from + 1, node.to)

HasChildOfKind(node, kind) ==
  \E i \in 1..Len(node.children) : node.children[i].name = kind

FirstChildOfKind(node, kind) ==
  node.children[CHOOSE i \in 1..Len(node.children) :
                  /\ node.children[i].name = kind
                  /\ \A j \in 1..(i - 1) : node.children[j].name # kind]

\* text without its first and its last character
Unquoted(t) == [i \in 1..(Len(t) - 2) |-> t[i + 1]]

IsMatcherWithNameAndValue(c) ==
  /\ c.name \in {"LabelMatcher", "UnquotedLabelMatcher", "QuotedLabelMatcher"}
  /\ HasChildOfKind(c, "LabelName")
  /\ HasChildOfKind(c, "StringLiteral")

ExpectedOperator(c) ==
  IF HasChildOfKind(c, "MatchOp")
     /\ TextOf(FirstChildOfKind(c, "MatchOp")) \in {<<"!", "=">>, <<"=", "~">>, <<"!", "~">>}
  THEN TextOf(FirstChildOfKind(c, "MatchOp"))
  ELSE <<"=">>

ExpectedMatcher(c) ==
  [name |-> TextOf(FirstChildOfKind(c, "LabelName")),
   value |-> Unquoted(TextOf(FirstChildOfKind(c, "StringLiteral"))),
   type |-> ExpectedOperator(c)]

\* C8: a single matcher with a label name and a string literal yields its
\* name slice, its literal without first and last character, and its operator
\* text when that is !=, =~ or !~ and = otherwise (also when it is absent).
C8_SingleMatcherFields ==
  (/\ pc = "done"
   /\ Len(tree.children) = 1
   /\ IsMatcherWithNameAndValue(tree.children[1]))
  => result = <<ExpectedMatcher(tree.children[1])>>

\* status=~"5.." was extracted as {status, =~, 5..}
C8_Witness ==
  /\ pc = "done"
  /\ query = <<"{", "s", "t", "a", "t", "u", "s", "=", "~", "\"", "5", ".", ".", "\"", "}">>
  /\ result = << [name |-> <<"s", "t", "a", "t", "u", "s">>,
                  value |-> <<"5", ".", ".">>,
                  type |-> <<"=", "~">>] >>

\* instance!~"a" was extracted with the operator !~
C8_WitnessNeqRegex ==
  /\ pc = "done"
  /\ Len(result) = 1
  /\ result[1].type = <<"!", "~">>
  /\ result[1].name = <<"i", "n", "s", "t", "a", "n", "c", "e">>

\* positions of the direct children that are matchers with name and value
MatcherPositions ==
  SelectSeq([i \in 1..Len(tree.children) |-> i],
            LAMBDA i : IsMatcherWithNameAndValue(tree.children[i]))

\* C9: exactly one matcher per direct child that is of a matcher kind and has
\* a label name and a string literal, in encounter order, duplicates kept;
\* every other child contributes nothing.
C9_OneMatcherPerCompleteChild ==
  pc = "done" =>
    /\ Len(result) = Len(MatcherPositions)
    /\ \A k \in 1..Len(MatcherPositions) :
         result[k] = ExpectedMatcher(tree.children[MatcherPositions[k]])

\* a list with a skipped child in front of a kept one, and a duplicate
C9_Witness ==
  /\ pc = "done"
  /\ Len(tree.children) = 3
  /\ ~IsMatcherWithNameAndValue(tree.children[1])
  /\ Len(result) = 2
  /\ result[1] = result[2]

\* ------------------------------------------------------------------------
\* Calling parseGroupingLabels on a grouping-labels container
\* ------------------------------------------------------------------------
GroupingChildren ==
  {Leaf("LabelName", <<"a">>),
   Leaf("LabelName", <<"s", "t", "a", "t", "u", "s">>),
   Leaf("QuotedLabelName", <<"\"", "a", "\"">>),
   Inner("GroupingLabelList", <<Leaf("LabelName", <<"a">>)>>)}

MaxLabels == 4

GroupingContainers ==
  {NodeOf("GroupingLabels", ls) : ls \in SeqsUpTo(GroupingChildren, MaxLabels)}

InitGrouping ==
  /\ \E s \in GroupingContainers :
       /\ tree = Layout(s, 0)
       /\ query = ShapeText(s)
  /\ durationStr = <<>>
  /\ fault = NoFault
  /\ pc = "call"
  /\ result = NoResult
  /\ buildCalls = 0
  /\ ast = NoAst
  /\ log = <<>>
  /\ locals = NoLocals

CallParseGroupingLabels ==
  /\ pc = "call"
  /\ result' = parseGroupingLabels(tree, query)
  /\ pc' = "done"
  /\ UNCHANGED <<query, tree, fault, durationStr, buildCalls>>
  /\ UNCHANGED <<ast, log, locals>>

NextGrouping == CallParseGroupingLabels

SpecGrouping == InitGrouping /\ [][NextGrouping]_vars

\* positions of the direct children of the label-name kind
LabelNamePositions ==
  SelectSeq([i \in 1..Len(tree.children) |-> i],
            LAMBDA i : tree.children[i].name = "LabelName")

\* C10: the output is the source slices of exactly the direct label-name
\* children, in source order, without deduplication.
C10_GroupingLabelsInOrder ==
  pc = "done" =>
    /\ Len(result) = Len(LabelNamePositions)
    /\ \A k \in 1..Len(LabelNamePositions) :
         result[k] = TextOf(tree.children[LabelNamePositions[k]])

\* (a,"a",status,a): the child of another kind was left out, a is kept twice
C10_Witness ==
  /\ pc = "done"
  /\ Len(tree.children) = 4
  /\ tree.children[2].name # "LabelName"
  /\ result = << <<"a">>, <<"s", "t", "a", "t", "u", "s">>, <<"a">> >>

\* ------------------------------------------------------------------------
\* Calling parseQuery: any tree under the PromQL top node, any node of it
\* flagged as an error, and the producer or the builder throwing or not
\* ------------------------------------------------------------------------
MaxNodes == 4

GenericKinds == {"VectorSelector", "ParenExpr", "Identifier"}

GenericTok(kind) ==
  CASE kind = "ParenExpr" -> <<"(", ")">>
    [] OTHER -> <<"u", "p">>

\* trees of exactly n nodes, forests of exactly m nodes (m >= 1)
RECURSIVE ShapesOfSize(_), ForestsOfSize(_)
ShapesOfSize(n) ==
  IF n = 1
  THEN {[name |-> k, isError |-> e, tok |-> GenericTok(k), children |-> <<>>] :
          k \in GenericKinds, e \in BOOLEAN}
  ELSE {[name |-> k, isError |-> e, tok |-> <<>>, children |-> f] :
          k \in GenericKinds, e \in BOOLEAN, f \in ForestsOfSize(n - 1)}

ForestsOfSize(m) ==
  UNION {{<<t>> \o rest :
            t \in ShapesOfSize(j),
            rest \in (IF m = j THEN {<<>>} ELSE ForestsOfSize(m - j))} :
         j \in 1..m}

TopShapes ==
  {[name |-> "PromQL", isError |-> e, tok |-> <<>>, children |-> f] :
     e \in BOOLEAN,
     f \in {<<>>} \cup UNION {ForestsOfSize(m) : m \in 1..(MaxNodes - 1)}}

Faults ==
  {NoFault}
  \cup {[at |-> a, isError |-> TRUE, message |-> "No parse at 0"] : a \in {"parse", "build"}}
  \cup {[at |-> a, isError |-> FALSE, message |-> ""] : a \in {"parse", "build"}}

InitParse ==
  /\ \E s \in TopShapes :
       /\ tree = Layout(s, 0)
       /\ query = ShapeText(s)
  /\ fault \in Faults
  /\ durationStr = <<>>
  /\ pc = "call"
  /\ result = NoResult
  /\ buildCalls = 0
  /\ ast = NoAst
  /\ log = <<>>
  /\ locals = NoLocals

CallParseQuery ==
  /\ pc = "call"
  /\ result' = parseQuery(query, tree, fault).result
  /\ buildCalls' = parseQuery(query, tree, fault).buildCalls
  /\ pc' = "done"
  /\ UNCHANGED <<query, tree, fault, durationStr>>
  /\ UNCHANGED <<ast, log, locals>>

NextParse == CallParseQuery

SpecParse == InitParse /\ [][NextParse]_vars

\* every node of the tree under (and including) node
RECURSIVE NodesOf(_)
NodesOf(node) ==
  {node} \cup UNION {NodesOf(node.children[i]) : i \in 1..Len(node.children)}

\* the producer returned a tree
TreeProduced == fault.at # "parse"

\* something threw inside parseQuery
Threw ==
  \/ fault.at = "parse"
  \/ fault.at = "build" /\ buildCalls = 1

\* C1: parseQuery always returns a ParseResult: success with ast and no error,
\* or failure with error and no ast; a thrown Error gives failure with that
\* Error's message.
C1_ParseQueryTotal ==
  pc = "done" =>
    /\ "success" \in DOMAIN result
    /\ result.success \in BOOLEAN
    /\ result.success => DOMAIN result = {"success", "ast"}
    /\ ~result.success => DOMAIN result = {"success", "error"}
    /\ (Threw /\ fault.isError) => result = [success |-> FALSE, error |-> fault.message]

\* the builder threw an Error and parseQuery returned its message
C1_Witness ==
  /\ pc = "done"
  /\ fault.at = "build"
  /\ fault.isError
  /\ buildCalls = 1
  /\ result = [success |-> FALSE, error |-> "No parse at 0"]

\* C2: an error node anywhere in the tree gives exactly the failure
\* "Parse error in query", and buildAST is not invoked.
C2_ErrorNodeAnywhere ==
  (/\ pc = "done"
   /\ TreeProduced
   /\ \E n \in NodesOf(tree) : n.isError)
  => /\ result = [success |-> FALSE, error |-> "Parse error in query"]
     /\ buildCalls = 0

\* the only error node is a grandchild of the top node, after a sibling
C2_Witness ==
  /\ pc = "done"
  /\ TreeProduced
  /\ ~tree.isError
  /\ Len(tree.children) = 1
  /\ ~tree.children[1].isError
  /\ Len(tree.children[1].children) = 2
  /\ ~tree.children[1].children[1].isError
  /\ tree.children[1].children[2].isError
  /\ result = [success |-> FALSE, error |-> "Parse error in query"]
  /\ buildCalls = 0

\* C3: with no error node and nothing thrown, a top node without a first
\* child gives the failure "Empty query", and any other tree gives success
\* with the AST built from the top node's first child.
C3_EmptyOrSuccess ==
  (/\ pc = "done"
   /\ TreeProduced
   /\ \A n \in NodesOf(tree) : ~n.isError)
  => /\ tree.children = <<>>
          => result = [success |-> FALSE, error |-> "Empty query"]
     /\ (tree.children # <<>> /\ ~Threw)
          => result = [success |-> TRUE, ast |-> buildAST(tree.children[1], query)]

C3_WitnessEmpty ==
  /\ pc = "done"
  /\ TreeProduced
  /\ ~tree.isError
  /\ tree.children = <<>>
  /\ query = <<>>
  /\ result = [success |-> FALSE, error |-> "Empty query"]

\* the first of two children of the top node was built
C3_Witness ==
  /\ pc = "done"
  /\ Len(tree.children) = 2
  /\ tree.children[1].name = "VectorSelector"
  /\ tree.children[2].name = "ParenExpr"
  /\ Len(tree.children[1].children) = 1
  /\ result.success
  /\ result.ast = [type |-> "vectorSelector", text |-> <<"u", "p">>,
                   name |-> <<"u", "p">>, matchers |-> <<>>]

\* ------------------------------------------------------------------------
\* Calling buildAST on matrix selectors and aggregations
\* ------------------------------------------------------------------------
Up == <<"u", "p">>

VectorSelectors ==
  {Leaf("VectorSelector", Up),
   Inner("VectorSelector", <<Leaf("Identifier", Up)>>),
   Inner("VectorSelector",
         <<Leaf("Identifier", Up),
           Inner("LabelMatchers",
                 <<Inner("UnquotedLabelMatcher",
                         <<Leaf("LabelName", <<"a">>),
                           Leaf("MatchOp", EqlRegex),
                           Leaf("StringLiteral", <<"\"", "a", "\"">>)>>)>>)>>)}

RateCall(arg) ==
  Inner("FunctionCall",
        <<Leaf("FunctionIdentifier", <<"r", "a", "t", "e">>),
          Inner("FunctionCallBody", <<arg>>)>>)

\* the expression a matrix selector applies its range to
MatrixOperands ==
  VectorSelectors
  \cup {RateCall(Inner("VectorSelector", <<Leaf("Identifier", Up)>>))}
  \cup {Inner("ParenExpr", <<Inner("VectorSelector", <<Leaf("Identifier", Up)>>)>>)}

\* what may follow the operand
MatrixParts ==
  MatrixOperands
  \cup {Leaf("Duration", t) : t \in {<<"5", "m">>, <<"1", "h">>, <<"0", "s">>}}
  \cup {Leaf("NumberDurationLiteralInDurationContext", <<"3", "0">>)}

MaxKids == 3

MatrixInputs ==
  LET ms == {Inner("MatrixSelector", <<e>> \o rest) :
               e \in MatrixOperands, rest \in SeqsUpTo(MatrixParts, MaxKids - 1)}
  IN ms \cup {RateCall(m) : m \in ms}

GroupingContainersForAggregation ==
  {NodeOf("GroupingLabels", ls) :
     ls \in SeqsUpTo({Leaf("LabelName", <<"a">>),
                      Leaf("LabelName", <<"s", "t", "a", "t", "u", "s">>),
                      Leaf("QuotedLabelName", <<"\"", "a", "\"">>)}, 2)}

AggregateModifiers ==
  {NodeOf("AggregateModifier", kw \o gl) :
     kw \in {<<Leaf("By", <<"b", "y">>)>>,
             <<Leaf("Without", <<"w", "i", "t", "h", "o", "u", "t">>)>>},
     gl \in Opt(GroupingContainersForAggregation)}

AggregateBodies ==
  {NodeOf("FunctionCallBody", <<>>),
   NodeOf("FunctionCallBody", <<Inner("VectorSelector", <<Leaf("Identifier", Up)>>)>>),
   NodeOf("FunctionCallBody", <<Leaf("NumberLiteral", <<"5">>), Leaf("VectorSelector", Up)>>),
   NodeOf("FunctionCallBody",
          <<Inner("OffsetExpr",
                  <<Inner("VectorSelector", <<Leaf("Identifier", Up)>>),
                    Leaf("Offset", <<"o", "f", "f", "s", "e", "t">>)>>),
            Inner("VectorSelector", <<Leaf("Identifier", Up)>>)>>)}

AggregateInputs ==
  {NodeOf("AggregateExpr", op \o md \o bd) :
     op \in {<<Leaf("AggregateOp", <<"s", "u", "m">>)>>,
             <<Leaf("AggregateOp", <<"S", "U", "M">>)>>},
     md \in Opt(AggregateModifiers),
     bd \in {<<b>> : b \in AggregateBodies}}
  \cup
  {NodeOf("AggregateExpr", op \o bd \o md) :
     op \in {<<Leaf("AggregateOp", <<"s", "u", "m">>)>>},
     bd \in {<<b>> : b \in AggregateBodies},
     md \in Opt(AggregateModifiers)}

\* nodes of kinds buildAST has no case for, with children of kinds that are and
\* are not expression-typed
UnhandledKinds == {"StepInvariantExpr", "OffsetExpr"}

UnhandledParts ==
  {Inner("VectorSelector", <<Leaf("Identifier", Up)>>),
   Leaf("NumberLiteral", <<"5">>),
   Leaf("At", <<"@">>),
   Inner("OffsetExpr", <<Leaf("NumberLiteral", <<"5">>)>>),
   Inner("StepInvariantExpr", <<Leaf("NumberLiteral", <<"5">>), Leaf("At", <<"@">>)>>)}

UnhandledInputs ==
  {Inner(k, kids) : k \in UnhandledKinds,
                    kids \in SeqsUpTo(UnhandledParts, MaxKids) \ {<<>>}}
  \cup {Leaf(k, <<"@">>) : k \in UnhandledKinds}

\* function calls: with or without a function identifier, with or without a
\* body, the body holding expressions and other nodes
CallParts ==
  {Inner("VectorSelector", <<Leaf("Identifier", Up)>>),
   Leaf("NumberLiteral", <<"5">>),
   Leaf("StringLiteral", <<"\"", "a", "\"">>),
   Leaf("LabelName", <<"a">>)}

CallInputs ==
  {Inner("FunctionCall", id \o <<NodeOf("FunctionCallBody", kids)>>) :
     id \in Opt({Leaf("FunctionIdentifier", <<"r", "a", "t", "e">>)}),
     kids \in SeqsUpTo(CallParts, MaxKids)}
  \cup {Inner("FunctionCall", <<Leaf("FunctionIdentifier", <<"r", "a", "t", "e">>)>>),
        Leaf("FunctionCall", <<"r", "a", "t", "e">>)}

\* binary expressions: operands, operator tokens and modifiers in any number
\* and order, and up > bool 5 as the parser lays it out
BoolModifier == Inner("BoolModifier", <<Leaf("Bool", <<"b", "o", "o", "l">>)>>)

BinaryParts ==
  {Inner("VectorSelector", <<Leaf("Identifier", Up)>>),
   Leaf("NumberLiteral", <<"5">>),
   Leaf("Add", <<"+">>),
   Leaf("Gtr", <<">">>),
   Leaf("MatchOp", EqlRegex),
   BoolModifier}

BinaryInputs ==
  {Inner("BinaryExpr", kids) : kids \in SeqsUpTo(BinaryParts, MaxKids) \ {<<>>}}
  \cup {Leaf("BinaryExpr", <<"+">>),
        Inner("BinaryExpr",
              <<Inner("VectorSelector", <<Leaf("Identifier", Up)>>),
                Leaf("Gtr", <<">">>),
                BoolModifier,
                Leaf("NumberLiteral", <<"5">>)>>)}

\* literals: string literals of any text, quoted or not, and number literals
LiteralChars == {"\"", "a", "\\"}

LiteralInputs ==
  {Leaf("StringLiteral", t) : t \in StringsUpTo(LiteralChars, MaxLen)}
  \cup {Leaf(k, t) : k \in {"NumberLiteral", "NumberDurationLiteral"},
                     t \in {<<"5">>, <<"0", "x", "1", "F">>, <<"1", "e", "3">>,
                            <<"I", "n", "f">>, <<"1", "h", "3", "0", "m">>}}

\* unary expressions: a sign token, which the grammar calls UnaryOp and which
\* the builder looks for as Add or Sub, and operands of kinds that are and are
\* not expression-typed
UnarySigns ==
  {Leaf("UnaryOp", <<"-">>), Leaf("UnaryOp", <<"+">>),
   Leaf("Sub", <<"-">>), Leaf("Add", <<"+">>)}

UnaryOperands ==
  {Inner("VectorSelector", <<Leaf("Identifier", Up)>>),
   Leaf("NumberLiteral", <<"5">>),
   Inner("OffsetExpr",
         <<Inner("VectorSelector", <<Leaf("Identifier", Up)>>),
           Leaf("Offset", <<"o", "f", "f", "s", "e", "t">>)>>)}

UnaryInputs ==
  {Inner("UnaryExpr", kids) :
     kids \in SeqsUpTo(UnarySigns \cup UnaryOperands, MaxKids) \ {<<>>}}

\* parenthesized expressions and subqueries around expressions of several
\* kinds, the inner expression alone, missing, or followed by another
InnerExpressions ==
  {Inner("VectorSelector", <<Leaf("Identifier", Up)>>),
   Leaf("NumberLiteral", <<"5">>),
   Inner("BinaryExpr",
         <<Inner("VectorSelector", <<Leaf("Identifier", Up)>>),
           Leaf("Add", <<"+">>),
           Leaf("NumberLiteral", <<"5">>)>>),
   Inner("OffsetExpr",
         <<Inner("VectorSelector", <<Leaf("Identifier", Up)>>),
           Leaf("Offset", <<"o", "f", "f", "s", "e", "t">>)>>),
   Inner("Expr", <<Inner("VectorSelector", <<Leaf("Identifier", Up)>>)>>)}

ParenInputs ==
  {NodeOf("ParenExpr", es) : es \in SeqsUpTo(InnerExpressions, MaxKids - 1)}

SubqueryInputs ==
  {Inner("SubqueryExpr",
         es \o <<Leaf("NumberDurationLiteralInDurationContext", <<"5", "m">>)>> \o st) :
     es \in SeqsUpTo(InnerExpressions, MaxKids - 1),
     st \in Opt({Leaf("NumberDurationLiteralInDurationContext", <<"1", "m">>)})}

InitBuild ==
  /\ \E s \in MatrixInputs \cup AggregateInputs \cup UnhandledInputs
             \cup CallInputs \cup BinaryInputs \cup LiteralInputs
             \cup UnaryInputs \cup ParenInputs \cup SubqueryInputs :
       /\ tree = Layout(s, 0)
       /\ query = ShapeText(s)
  /\ fault = NoFault
  /\ durationStr = <<>>
  /\ pc = "call"
  /\ result = NoResult
  /\ buildCalls = 0
  /\ ast = NoAst
  /\ log = <<>>
  /\ locals = NoLocals

CallBuildAST ==
  /\ pc = "call"
  /\ result' = buildAST(tree, query)
  /\ buildCalls' = buildCalls + 1
  /\ pc' = "done"
  /\ UNCHANGED <<query, tree, fault, durationStr>>
  /\ UNCHANGED <<ast, log, locals>>

NextBuild == CallBuildAST

SpecBuild == InitBuild /\ [][NextBuild]_vars

\* the nodes of a ParsedNode tree
RECURSIVE AstNodes(_)
AstNodes(n) ==
  {n}
  \cup (IF "children" \in DOMAIN n
        THEN UNION {AstNodes(n.children[i]) : i \in 1..Len(n.children)} ELSE {})
  \cup (IF "args" \in DOMAIN n
        THEN UNION {AstNodes(n.args[i]) : i \in 1..Len(n.args)} ELSE {})

IsPositiveInteger(x) ==
  /\ x.hi >= 0 /\ x.lo >= 0 /\ x.lo < Base
  /\ (x.hi > 0 \/ x.lo > 0)

\* the first duration child of a matrix selector, as the builder looks it up
HasDurationChild(node) ==
  HasChildOfKind(node, "Duration")
    \/ HasChildOfKind(node, "NumberDurationLiteralInDurationContext")

DurationChild(node) ==
  IF HasChildOfKind(node, "Duration") THEN FirstChildOfKind(node, "Duration")
  ELSE FirstChildOfKind(node, "NumberDurationLiteralInDurationContext")

\* C4: every MatrixSelector node of a built AST has a range that is a
\* positive integer, and it is 300000 when the concrete matrix selector has
\* no duration child or its duration text has no parseable component.
C4_MatrixRangePositive ==
  pc = "done" =>
    /\ \A n \in AstNodes(result) :
         n.type = "matrixSelector"
           => ("range" \in DOMAIN n /\ IsPositiveInteger(n.range))
    /\ (/\ tree.name = "MatrixSelector"
        /\ result.type = "matrixSelector"
        /\ (~HasDurationChild(tree) \/ IsZero(ExpectedTotal(TextOf(DurationChild(tree))))))
       => ("range" \in DOMAIN result /\ result.range = Num(0, 300000))

AggregationModifierPresent == HasChildOfKind(tree, "AggregateModifier")

\* C5 as stated: the grouping list is empty exactly when the aggregation
\* node has no modifier child; without a modifier, without is false.
C5_GroupingEmptyIffNoModifier ==
  (pc = "done" /\ tree.name = "AggregateExpr") =>
    /\ result.type = "aggregation"
    /\ (result.grouping = <<>>) <=> ~AggregationModifierPresent
    /\ ~AggregationModifierPresent => result.without = FALSE

\* the label-name children of the modifier's first grouping-labels child
ModifierHasLabelName ==
  /\ AggregationModifierPresent
  /\ HasChildOfKind(FirstChildOfKind(tree, "AggregateModifier"), "GroupingLabels")
  /\ HasChildOfKind(
       FirstChildOfKind(FirstChildOfKind(tree, "AggregateModifier"), "GroupingLabels"),
       "LabelName")

\* C5 amended: the grouping list is non-empty exactly when the modifier is
\* present and its grouping-labels child has a label-name child; an absent
\* modifier yields an empty list and without = false.
C5_GroupingEmptyIffNoLabelName ==
  (pc = "done" /\ tree.name = "AggregateExpr") =>
    /\ result.type = "aggregation"
    /\ (result.grouping # <<>>) <=> ModifierHasLabelName
    /\ ~AggregationModifierPresent
         => (result.grouping = <<>> /\ result.without = FALSE)

\* sum by () (up): the modifier is present and the grouping list is empty
C5_Witness ==
  /\ pc = "done"
  /\ tree.name = "AggregateExpr"
  /\ AggregationModifierPresent
  /\ HasChildOfKind(FirstChildOfKind(tree, "AggregateModifier"), "By")
  /\ HasChildOfKind(FirstChildOfKind(tree, "AggregateModifier"), "GroupingLabels")
  /\ result.grouping = <<>>
  /\ result.without = FALSE
  /\ Len(result.children) = 1

\* ------------------------------------------------------------------------
\* formatDuration
\* ------------------------------------------------------------------------
DigitChars == <<"0", "1", "2", "3", "4", "5", "6", "7", "8", "9">>

\* String(n) of a non-negative integer below Base
RECURSIVE natToStr(_)
natToStr(n) ==
  IF n < 10 THEN <<DigitChars[n + 1]>>
  ELSE natToStr(n \div 10) \o <<DigitChars[(n % 10) + 1]>>

\* the low limb written with all its six digits
lowLimbToStr(n) ==
  [i \in 1..6 |-> DigitChars[((n \div (10 ^ (6 - i))) % 10) + 1]]

\* String(x) of a two-limb integer
numToStr(x) ==
  IF x.hi = 0 THEN natToStr(x.lo) ELSE natToStr(x.hi) \o lowLimbToStr(x.lo)

\* x >= y on two-limb integers
Geq(x, y) == x.hi > y.hi \/ (x.hi = y.hi /\ x.lo >= y.lo)

\* digits of floor(x / d), by long division over the decimal digits of x
RECURSIVE longDivision(_, _, _, _)
longDivision(ds, i, d, r) ==
  IF i > Len(ds) THEN <<>>
  ELSE LET cur == r * 10 + DigitValue(ds[i])
       IN <<DigitChars[(cur \div d) + 1]>> \o longDivision(ds, i + 1, d, cur % d)

RECURSIVE stripLeadingZeros(_)
stripLeadingZeros(ds) ==
  IF Len(ds) > 1 /\ ds[1] = "0" THEN stripLeadingZeros(Tail(ds)) ELSE ds

\* String(Math.floor(x / d))
floorDivToStr(x, d) == stripLeadingZeros(longDivision(numToStr(x), 1, d, 0))

\* formatDuration with a unit used only above its size, not from it on
formatDurationStrictThresholds(ms) ==
  IF ~Geq(Num(0, 86400000), ms) THEN floorDivToStr(ms, 86400000) \o <<"d">>
  ELSE IF ~Geq(Num(0, 3600000), ms) THEN floorDivToStr(ms, 3600000) \o <<"h">>
  ELSE IF ~Geq(Num(0, 60000), ms) THEN floorDivToStr(ms, 60000) \o <<"m">>
  ELSE IF ~Geq(Num(0, 1000), ms) THEN floorDivToStr(ms, 1000) \o <<"s">>
  ELSE numToStr(ms) \o <<"m", "s">>

formatDuration(ms) ==
  IF Geq(ms, Num(0, 86400000)) THEN floorDivToStr(ms, 86400000) \o <<"d">>
  ELSE IF Geq(ms, Num(0, 3600000)) THEN floorDivToStr(ms, 3600000) \o <<"h">>
  ELSE IF Geq(ms, Num(0, 60000)) THEN floorDivToStr(ms, 60000) \o <<"m">>
  ELSE IF Geq(ms, Num(0, 1000)) THEN floorDivToStr(ms, 1000) \o <<"s">>
  ELSE numToStr(ms) \o <<"m", "s">>

\* ------------------------------------------------------------------------
\* explainQuery
\* ------------------------------------------------------------------------
\* a field of a ParsedNode is absent when the record has no such field
Has(n, f) == f \in DOMAIN n

\* `${n.f}` for a string field: the text, "undefined" when the field is absent
fieldText(n, f) == IF Has(n, f) THEN n[f] ELSE <<"u", "n", "d", "e", "f", "i", "n", "e", "d">>

\* n.f || ''
fieldOrEmpty(n, f) == IF Has(n, f) THEN n[f] ELSE <<>>

\* Array.prototype.join
RECURSIVE join(_, _)
join(parts, sep) ==
  IF parts = <<>> THEN <<>>
  ELSE IF Len(parts) = 1 THEN parts[1]
  ELSE parts[1] \o sep \o join(Tail(parts), sep)

aggregationDescriptions ==
  << [k |-> <<"s", "u", "m">>,
      v |-> <<"s", "u", "m", "s">>],
     [k |-> <<"a", "v", "g">>,
      v |-> <<"c", "a", "l", "c", "u", "l", "a", "t", "e", "s", " ", "t",
              "h", "e", " ", "a", "v", "e", "r", "a", "g", "e", " ", "o",
              "f">>],
     [k |-> <<"m", "i", "n">>,
      v |-> <<"f", "i", "n", "d", "s", " ", "t", "h", "e", " ", "m", "i",
              "n", "i", "m", "u", "m", " ", "o", "f">>],
     [k |-> <<"m", "a", "x">>,
      v |-> <<"f", "i", "n", "d", "s", " ", "t", "h", "e", " ", "m", "a",
              "x", "i", "m", "u", "m", " ", "o", "f">>],
     [k |-> <<"c", "o", "u", "n", "t">>,
      v |-> <<"c", "o", "u", "n", "t", "s">>],
     [k |-> <<"s", "t", "d", "d", "e", "v">>,
      v |-> <<"c", "a", "l", "c", "u", "l", "a", "t", "e", "s", " ", "t",
              "h", "e", " ", "s", "t", "a", "n", "d", "a", "r", "d", " ",
              "d", "e", "v", "i", "a", "t", "i", "o", "n", " ", "o", "f">>],
     [k |-> <<"s", "t", "d", "v", "a", "r">>,
      v |-> <<"c", "a", "l", "c", "u", "l", "a", "t", "e", "s", " ", "t",
              "h", "e", " ", "v", "a", "r", "i", "a", "n", "c", "e", " ",
              "o", "f">>],
     [k |-> <<"t", "o", "p", "k">>,
      v |-> <<"r", "e", "t", "u", "r", "n", "s", " ", "t", "h", "e", " ",
              "t", "o", "p", " ", "K", " ", "v", "a", "l", "u", "e", "s",
              " ", "o", "f">>],
     [k |-> <<"b", "o", "t", "t", "o", "m", "k">>,
      v |-> <<"r", "e", "t", "u", "r", "n", "s", " ", "t", "h", "e", " ",
              "b", "o", "t", "t", "o", "m", " ", "K", " ", "v", "a", "l",
              "u", "e", "s", " ", "o", "f">>],
     [k |-> <<"q", "u", "a", "n", "t", "i", "l", "e">>,
      v |-> <<"c", "a", "l", "c", "u", "l", "a", "t", "e", "s", " ", "a",
              " ", "q", "u", "a", "n", "t", "i", "l", "e", " ", "o", "f">>],
     [k |-> <<"g", "r", "o", "u", "p">>,
      v |-> <<"g", "r", "o", "u", "p", "s">>] >>

funcDescriptions ==
  << [k |-> <<"r", "a", "t", "e">>,
      v |-> <<"c", "a", "l", "c", "u", "l", "a", "t", "e", "s", " ", "t",
              "h", "e", " ", "p", "e", "r", "-", "s", "e", "c", "o", "n",
              "d", " ", "r", "a", "t", "e", " ", "o", "f", " ", "i", "n",
              "c", "r", "e", "a", "s", "e">>],
     [k |-> <<"i", "r", "a", "t", "e">>,
      v |-> <<"c", "a", "l", "c", "u", "l", "a", "t", "e", "s", " ", "t",
              "h", "e", " ", "i", "n", "s", "t", "a", "n", "t", " ", "r",
              "a", "t", "e", " ", "o", "f", " ", "i", "n", "c", "r", "e",
              "a", "s", "e">>],
     [k |-> <<"i", "n", "c", "r", "e", "a", "s", "e">>,
      v |-> <<"c", "a", "l", "c", "u", "l", "a", "t", "e", "s", " ", "t",
              "h", "e", " ", "t", "o", "t", "a", "l", " ", "i", "n", "c",
              "r", "e", "a", "s", "e">>],
     [k |-> <<"d", "e", "l", "t", "a">>,
      v |-> <<"c", "a", "l", "c", "u", "l", "a", "t", "e", "s", " ", "t",
              "h", "e", " ", "d", "i", "f", "f", "e", "r", "e", "n", "c",
              "e", " ", "b", "e", "t", "w", "e", "e", "n", " ", "f", "i",
              "r", "s", "t", " ", "a", "n", "d", " ", "l", "a", "s", "t",
              " ", "v", "a", "l", "u", "e">>],
     [k |-> <<"h", "i", "s", "t", "o", "g", "r", "a", "m", "_", "q", "u",
              "a", "n", "t", "i", "l", "e">>,
      v |-> <<"c", "a", "l", "c", "u", "l", "a", "t", "e", "s", " ", "a",
              " ", "p", "e", "r", "c", "e", "n", "t", "i", "l", "e", " ",
              "f", "r", "o", "m", " ", "h", "i", "s", "t", "o", "g", "r",
              "a", "m", " ", "b", "u", "c", "k", "e", "t", "s">>],
     [k |-> <<"l", "a", "b", "e", "l", "_", "r", "e", "p", "l", "a", "c",
              "e">>,
      v |-> <<"r", "e", "p", "l", "a", "c", "e", "s", " ", "l", "a", "b",
              "e", "l", " ", "v", "a", "l", "u", "e", "s", " ", "u", "s",
              "i", "n", "g", " ", "r", "e", "g", "e", "x">>],
     [k |-> <<"l", "a", "b", "e", "l", "_", "j", "o", "i", "n">>,
      v |-> <<"j", "o", "i", "n", "s", " ", "l", "a", "b", "e", "l", " ",
              "v", "a", "l", "u", "e", "s">>],
     [k |-> <<"a", "b", "s">>,
      v |-> <<"r", "e", "t", "u", "r", "n", "s", " ", "a", "b", "s", "o",
              "l", "u", "t", "e", " ", "v", "a", "l", "u", "e", "s">>],
     [k |-> <<"c", "e", "i", "l">>,
      v |-> <<"r", "o", "u", "n", "d", "s", " ", "u", "p", " ", "t", "o",
              " ", "n", "e", "a", "r", "e", "s", "t", " ", "i", "n", "t",
              "e", "g", "e", "r">>],
     [k |-> <<"f", "l", "o", "o", "r">>,
      v |-> <<"r", "o", "u", "n", "d", "s", " ", "d", "o", "w", "n", " ",
              "t", "o", " ", "n", "e", "a", "r", "e", "s", "t", " ", "i",
              "n", "t", "e", "g", "e", "r">>],
     [k |-> <<"r", "o", "u", "n", "d">>,
      v |-> <<"r", "o", "u", "n", "d", "s", " ", "t", "o", " ", "n", "e",
              "a", "r", "e", "s", "t", " ", "i", "n", "t", "e", "g", "e",
              "r">>],
     [k |-> <<"s", "q", "r", "t">>,
      v |-> <<"c", "a", "l", "c", "u", "l", "a", "t", "e", "s", " ", "s",
              "q", "u", "a", "r", "e", " ", "r", "o", "o", "t">>],
     [k |-> <<"e", "x", "p">>,
      v |-> <<"c", "a", "l", "c", "u", "l", "a", "t", "e", "s", " ", "e",
              "x", "p", "o", "n", "e", "n", "t", "i", "a", "l">>],
     [k |-> <<"l", "n">>,
      v |-> <<"c", "a", "l", "c", "u", "l", "a", "t", "e", "s", " ", "n",
              "a", "t", "u", "r", "a", "l", " ", "l", "o", "g", "a", "r",
              "i", "t", "h", "m">>],
     [k |-> <<"l", "o", "g", "2">>,
      v |-> <<"c", "a", "l", "c", "u", "l", "a", "t", "e", "s", " ", "b",
              "a", "s", "e", "-", "2", " ", "l", "o", "g", "a", "r", "i",
              "t", "h", "m">>],
     [k |-> <<"l", "o", "g", "1", "0">>,
      v |-> <<"c", "a", "l", "c", "u", "l", "a", "t", "e", "s", " ", "b",
              "a", "s", "e", "-", "1", "0", " ", "l", "o", "g", "a", "r",
              "i", "t", "h", "m">>],
     [k |-> <<"t", "i", "m", "e">>,
      v |-> <<"r", "e", "t", "u", "r", "n", "s", " ", "t", "h", "e", " ",
              "c", "u", "r", "r", "e", "n", "t", " ", "U", "n", "i", "x",
              " ", "t", "i", "m", "e", "s", "t", "a", "m", "p">>],
     [k |-> <<"t", "i", "m", "e", "s", "t", "a", "m", "p">>,
      v |-> <<"r", "e", "t", "u", "r", "n", "s", " ", "t", "h", "e", " ",
              "t", "i", "m", "e", "s", "t", "a", "m", "p", " ", "o", "f",
              " ", "e", "a", "c", "h", " ", "s", "a", "m", "p", "l", "e">>],
     [k |-> <<"a", "b", "s", "e", "n", "t">>,
      v |-> <<"r", "e", "t", "u", "r", "n", "s", " ", "1", " ", "i", "f",
              " ", "t", "h", "e", " ", "s", "e", "r", "i", "e", "s", " ",
              "i", "s", " ", "a", "b", "s", "e", "n", "t">>],
     [k |-> <<"a", "b", "s", "e", "n", "t", "_", "o", "v", "e", "r", "_",
              "t", "i", "m", "e">>,
      v |-> <<"r", "e", "t", "u", "r", "n", "s", " ", "1", " ", "i", "f",
              " ", "t", "h", "e", " ", "s", "e", "r", "i", "e", "s", " ",
              "h", "a", "s", " ", "n", "o", " ", "v", "a", "l", "u", "e",
              "s", " ", "i", "n", " ", "t", "h", "e", " ", "r", "a", "n",
              "g", "e">>],
     [k |-> <<"c", "h", "a", "n", "g", "e", "s">>,
      v |-> <<"c", "o", "u", "n", "t", "s", " ", "v", "a", "l", "u", "e",
              " ", "c", "h", "a", "n", "g", "e", "s">>],
     [k |-> <<"r", "e", "s", "e", "t", "s">>,
      v |-> <<"c", "o", "u", "n", "t", "s", " ", "c", "o", "u", "n", "t",
              "e", "r", " ", "r", "e", "s", "e", "t", "s">>],
     [k |-> <<"d", "e", "r", "i", "v">>,
      v |-> <<"c", "a", "l", "c", "u", "l", "a", "t", "e", "s", " ", "t",
              "h", "e", " ", "d", "e", "r", "i", "v", "a", "t", "i", "v",
              "e", " ", "u", "s", "i", "n", "g", " ", "l", "i", "n", "e",
              "a", "r", " ", "r", "e", "g", "r", "e", "s", "s", "i", "o",
              "n">>],
     [k |-> <<"p", "r", "e", "d", "i", "c", "t", "_", "l", "i", "n", "e",
              "a", "r">>,
      v |-> <<"p", "r", "e", "d", "i", "c", "t", "s", " ", "f", "u", "t",
              "u", "r", "e", " ", "v", "a", "l", "u", "e", "s", " ", "u",
              "s", "i", "n", "g", " ", "l", "i", "n", "e", "a", "r", " ",
              "r", "e", "g", "r", "e", "s", "s", "i", "o", "n">>],
     [k |-> <<"h", "o", "l", "t", "_", "w", "i", "n", "t", "e", "r", "s">>,
      v |-> <<"a", "p", "p", "l", "i", "e", "s", " ", "H", "o", "l", "t",
              "-", "W", "i", "n", "t", "e", "r", "s", " ", "s", "m", "o",
              "o", "t", "h", "i", "n", "g">>],
     [k |-> <<"c", "l", "a", "m", "p">>,
      v |-> <<"c", "l", "a", "m", "p", "s", " ", "v", "a", "l", "u", "e",
              "s", " ", "b", "e", "t", "w", "e", "e", "n", " ", "m", "i",
              "n", " ", "a", "n", "d", " ", "m", "a", "x">>],
     [k |-> <<"c", "l", "a", "m", "p", "_", "m", "i", "n">>,
      v |-> <<"c", "l", "a", "m", "p", "s", " ", "v", "a", "l", "u", "e",
              "s", " ", "t", "o", " ", "a", " ", "m", "i", "n", "i", "m",
              "u", "m">>],
     [k |-> <<"c", "l", "a", "m", "p", "_", "m", "a", "x">>,
      v |-> <<"c", "l", "a", "m", "p", "s", " ", "v", "a", "l", "u", "e",
              "s", " ", "t", "o", " ", "a", " ", "m", "a", "x", "i", "m",
              "u", "m">>],
     [k |-> <<"s", "o", "r", "t">>,
      v |-> <<"s", "o", "r", "t", "s", " ", "v", "a", "l", "u", "e", "s",
              " ", "a", "s", "c", "e", "n", "d", "i", "n", "g">>],
     [k |-> <<"s", "o", "r", "t", "_", "d", "e", "s", "c">>,
      v |-> <<"s", "o", "r", "t", "s", " ", "v", "a", "l", "u", "e", "s",
              " ", "d", "e", "s", "c", "e", "n", "d", "i", "n", "g">>],
     [k |-> <<"a", "v", "g", "_", "o", "v", "e", "r", "_", "t", "i", "m",
              "e">>,
      v |-> <<"c", "a", "l", "c", "u", "l", "a", "t", "e", "s", " ", "a",
              "v", "e", "r", "a", "g", "e", " ", "o", "v", "e", "r", " ",
              "t", "i", "m", "e", " ", "r", "a", "n", "g", "e">>],
     [k |-> <<"m", "i", "n", "_", "o", "v", "e", "r", "_", "t", "i", "m",
              "e">>,
      v |-> <<"f", "i", "n", "d", "s", " ", "m", "i", "n", "i", "m", "u",
              "m", " ", "o", "v", "e", "r", " ", "t", "i", "m", "e", " ",
              "r", "a", "n", "g", "e">>],
     [k |-> <<"m", "a", "x", "_", "o", "v", "e", "r", "_", "t", "i", "m",
              "e">>,
      v |-> <<"f", "i", "n", "d", "s", " ", "m", "a", "x", "i", "m", "u",
              "m", " ", "o", "v", "e", "r", " ", "t", "i", "m", "e", " ",
              "r", "a", "n", "g", "e">>],
     [k |-> <<"s", "u", "m", "_", "o", "v", "e", "r", "_", "t", "i", "m",
              "e">>,
      v |-> <<"s", "u", "m", "s", " ", "v", "a", "l", "u", "e", "s", " ",
              "o", "v", "e", "r", " ", "t", "i", "m", "e", " ", "r", "a",
              "n", "g", "e">>],
     [k |-> <<"c", "o", "u", "n", "t", "_", "o", "v", "e", "r", "_", "t",
              "i", "m", "e">>,
      v |-> <<"c", "o", "u", "n", "t", "s", " ", "s", "a", "m", "p", "l",
              "e", "s", " ", "o", "v", "e", "r", " ", "t", "i", "m", "e",
              " ", "r", "a", "n", "g", "e">>],
     [k |-> <<"s", "t", "d", "d", "e", "v", "_", "o", "v", "e", "r", "_",
              "t", "i", "m", "e">>,
      v |-> <<"c", "a", "l", "c", "u", "l", "a", "t", "e", "s", " ", "s",
              "t", "a", "n", "d", "a", "r", "d", " ", "d", "e", "v", "i",
              "a", "t", "i", "o", "n", " ", "o", "v", "e", "r", " ", "t",
              "i", "m", "e", " ", "r", "a", "n", "g", "e">>],
     [k |-> <<"s", "t", "d", "v", "a", "r", "_", "o", "v", "e", "r", "_",
              "t", "i", "m", "e">>,
      v |-> <<"c", "a", "l", "c", "u", "l", "a", "t", "e", "s", " ", "v",
              "a", "r", "i", "a", "n", "c", "e", " ", "o", "v", "e", "r",
              " ", "t", "i", "m", "e", " ", "r", "a", "n", "g", "e">>],
     [k |-> <<"l", "a", "s", "t", "_", "o", "v", "e", "r", "_", "t", "i",
              "m", "e">>,
      v |-> <<"r", "e", "t", "u", "r", "n", "s", " ", "l", "a", "s", "t",
              " ", "v", "a", "l", "u", "e", " ", "i", "n", " ", "t", "i",
              "m", "e", " ", "r", "a", "n", "g", "e">>],
     [k |-> <<"p", "r", "e", "s", "e", "n", "t", "_", "o", "v", "e", "r",
              "_", "t", "i", "m", "e">>,
      v |-> <<"r", "e", "t", "u", "r", "n", "s", " ", "1", " ", "i", "f",
              " ", "a", "n", "y", " ", "s", "a", "m", "p", "l", "e", " ",
              "e", "x", "i", "s", "t", "s", " ", "i", "n", " ", "r", "a",
              "n", "g", "e">>],
     [k |-> <<"q", "u", "a", "n", "t", "i", "l", "e", "_", "o", "v", "e",
              "r", "_", "t", "i", "m", "e">>,
      v |-> <<"c", "a", "l", "c", "u", "l", "a", "t", "e", "s", " ", "q",
              "u", "a", "n", "t", "i", "l", "e", " ", "o", "v", "e", "r",
              " ", "t", "i", "m", "e", " ", "r", "a", "n", "g", "e">>] >>

binaryDescriptions ==
  << [k |-> <<"+">>,
      v |-> <<"a", "d", "d", "s">>],
     [k |-> <<"-">>,
      v |-> <<"s", "u", "b", "t", "r", "a", "c", "t", "s">>],
     [k |-> <<"*">>,
      v |-> <<"m", "u", "l", "t", "i", "p", "l", "i", "e", "s">>],
     [k |-> <<"/">>,
      v |-> <<"d", "i", "v", "i", "d", "e", "s">>],
     [k |-> <<"%">>,
      v |-> <<"c", "a", "l", "c", "u", "l", "a", "t", "e", "s", " ", "m",
              "o", "d", "u", "l", "o", " ", "o", "f">>],
     [k |-> <<"^">>,
      v |-> <<"r", "a", "i", "s", "e", "s", " ", "t", "o", " ", "t", "h",
              "e", " ", "p", "o", "w", "e", "r", " ", "o", "f">>],
     [k |-> <<"=", "=">>,
      v |-> <<"c", "h", "e", "c", "k", "s", " ", "e", "q", "u", "a", "l",
              "i", "t", "y", " ", "o", "f">>],
     [k |-> <<"!", "=">>,
      v |-> <<"c", "h", "e", "c", "k", "s", " ", "i", "n", "e", "q", "u",
              "a", "l", "i", "t", "y", " ", "o", "f">>],
     [k |-> <<">">>,
      v |-> <<"c", "o", "m", "p", "a", "r", "e", "s", " ", "(", "g", "r",
              "e", "a", "t", "e", "r", " ", "t", "h", "a", "n", ")">>],
     [k |-> <<"<">>,
      v |-> <<"c", "o", "m", "p", "a", "r", "e", "s", " ", "(", "l", "e",
              "s", "s", " ", "t", "h", "a", "n", ")">>],
     [k |-> <<">", "=">>,
      v |-> <<"c", "o", "m", "p", "a", "r", "e", "s", " ", "(", "g", "r",
              "e", "a", "t", "e", "r", " ", "o", "r", " ", "e", "q", "u",
              "a", "l", ")">>],
     [k |-> <<"<", "=">>,
      v |-> <<"c", "o", "m", "p", "a", "r", "e", "s", " ", "(", "l", "e",
              "s", "s", " ", "o", "r", " ", "e", "q", "u", "a", "l", ")">>],
     [k |-> <<"a", "n", "d">>,
      v |-> <<"p", "e", "r", "f", "o", "r", "m", "s", " ", "l", "o", "g",
              "i", "c", "a", "l", " ", "A", "N", "D", " ", "o", "n">>],
     [k |-> <<"o", "r">>,
      v |-> <<"p", "e", "r", "f", "o", "r", "m", "s", " ", "l", "o", "g",
              "i", "c", "a", "l", " ", "O", "R", " ", "o", "n">>],
     [k |-> <<"u", "n", "l", "e", "s", "s">>,
      v |-> <<"e", "x", "c", "l", "u", "d", "e", "s", " ", "m", "a", "t",
              "c", "h", "i", "n", "g", " ", "s", "e", "r", "i", "e", "s",
              " ", "f", "r", "o", "m">>] >>

\* property names every object literal inherits from Object.prototype
ObjectPrototypeKeys ==
  {<<"c", "o", "n", "s", "t", "r", "u", "c", "t", "o", "r">>, <<"t", "o", "S", "t", "r", "i", "n", "g">>, <<"t", "o", "L", "o", "c", "a", "l", "e", "S", "t", "r", "i", "n",
        "g">>, <<"v", "a", "l", "u", "e", "O", "f">>,
   <<"h", "a", "s", "O", "w", "n", "P", "r", "o", "p", "e", "r", "t",
        "y">>, <<"i", "s", "P", "r", "o", "t", "o", "t", "y", "p", "e", "O", "f">>, <<"p", "r", "o", "p", "e", "r", "t", "y", "I", "s", "E", "n", "u",
        "m", "e", "r", "a", "b", "l", "e">>,
   <<"_", "_", "p", "r", "o", "t", "o", "_", "_">>, <<"_", "_", "d", "e", "f", "i", "n", "e", "G", "e", "t", "t", "e",
        "r", "_", "_">>, <<"_", "_", "d", "e", "f", "i", "n", "e", "S", "e", "t", "t", "e",
        "r", "_", "_">>,
   <<"_", "_", "l", "o", "o", "k", "u", "p", "G", "e", "t", "t", "e",
        "r", "_", "_">>, <<"_", "_", "l", "o", "o", "k", "u", "p", "S", "e", "t", "t", "e",
        "r", "_", "_">>}

\* `${table[key]}` for an inherited property: a native function, or
\* Object.prototype itself for __proto__
inheritedText(key) ==
  IF key = <<"_", "_", "p", "r", "o", "t", "o", "_", "_">> THEN <<"[", "o", "b", "j", "e", "c", "t", " ", "O", "b", "j", "e", "c",
        "t", "]">>
  ELSE IF key = <<"c", "o", "n", "s", "t", "r", "u", "c", "t", "o", "r">> THEN <<"f", "u", "n", "c", "t", "i", "o", "n", " ", "O", "b", "j", "e",
        "c", "t", "(", ")", " ", "{", " ", "[", "n", "a", "t", "i", "v",
        "e", " ", "c", "o", "d", "e", "]", " ", "}">>
  ELSE <<"f", "u", "n", "c", "t", "i", "o", "n", " ">> \o key \o <<"(", ")", " ", "{", " ", "[", "n", "a", "t", "i", "v", "e", " ",
        "c", "o", "d", "e", "]", " ", "}">>

\* table[key] with own properties only
ownLookup(table, key) ==
  LET own == {i \in 1..Len(table) : table[i].k = key}
  IN IF own # {} THEN [defined |-> TRUE, text |-> table[CHOOSE i \in own : TRUE].v]
     ELSE [defined |-> FALSE]

\* table[key] on an object literal: an own property, or one inherited from
\* Object.prototype, or undefined
lookup(table, key) ==
  IF ownLookup(table, key).defined THEN ownLookup(table, key)
  ELSE IF key \in ObjectPrototypeKeys
       THEN [defined |-> TRUE, text |-> inheritedText(key)]
       ELSE [defined |-> FALSE]

RECURSIVE explainQuery(_)

\* case 'aggregation' written to describe the aggregated expression as well
explainAggregationWithChild(n) ==
  LET found == lookup(aggregationDescriptions, fieldOrEmpty(n, "op"))
      opDesc == IF found.defined THEN found.text
                ELSE <<"a", "p", "p", "l", "i", "e", "s", " ">> \o fieldText(n, "op") \o <<" ", "t", "o">>
      explanation == <<"T", "h", "i", "s", " ", "e", "x", "p", "r", "e", "s", "s", "i",
        "o", "n", " ">> \o opDesc \o <<" ", "t", "h", "e", " ", "v", "a", "l", "u", "e", "s">>
      ofChild == IF Has(n, "children") /\ Len(n.children) > 0
                 THEN <<" ", "o", "f", ":", " ">> \o explainQuery(n.children[1]) ELSE <<>>
  IN explanation \o ofChild

\* case 'aggregation'
explainAggregation(n) ==
  LET found == lookup(aggregationDescriptions, fieldOrEmpty(n, "op"))
      opDesc == IF found.defined THEN found.text
                ELSE <<"a", "p", "p", "l", "i", "e", "s", " ">> \o fieldText(n, "op") \o <<" ", "t", "o">>
      explanation == <<"T", "h", "i", "s", " ", "e", "x", "p", "r", "e", "s", "s", "i",
        "o", "n", " ">> \o opDesc \o <<" ", "t", "h", "e", " ", "v", "a", "l", "u", "e", "s">>
  IN IF Has(n, "grouping") /\ Len(n.grouping) > 0
     THEN IF Has(n, "without") /\ n.without
          THEN explanation \o <<",", " ", "e", "x", "c", "l", "u", "d", "i", "n", "g", " ", "l",
        "a", "b", "e", "l", "s", ":", " ">> \o join(n.grouping, <<",", " ">>)
          ELSE explanation \o <<",", " ", "g", "r", "o", "u", "p", "e", "d", " ", "b", "y", ":",
        " ">> \o join(n.grouping, <<",", " ">>)
     ELSE explanation

\* case 'call'
explainCall(n) ==
  LET found == lookup(funcDescriptions, fieldOrEmpty(n, "funcName"))
      desc == IF found.defined THEN found.text
              ELSE <<"a", "p", "p", "l", "i", "e", "s", " ">> \o fieldText(n, "funcName") \o <<"(", ")">>
  IN <<"T", "h", "e", " ">> \o fieldText(n, "funcName") \o <<"(", ")", " ", "f", "u", "n", "c", "t", "i", "o", "n", " ">> \o desc

\* the callback of matchers.map; join renders an undefined element as ''
matcherDescription(m) ==
  CASE m.type = EqlSingle -> m.name \o <<" ", "e", "q", "u", "a", "l", "s", " ", "\"">> \o m.value \o <<"\"">>
    [] m.type = Neq -> m.name \o <<" ", "d", "o", "e", "s", " ", "n", "o", "t", " ", "e", "q", "u",
        "a", "l", " ", "\"">> \o m.value \o <<"\"">>
    [] m.type = EqlRegex -> m.name \o <<" ", "m", "a", "t", "c", "h", "e", "s", " ", "r", "e", "g", "e",
        "x", " ", "\"">> \o m.value \o <<"\"">>
    [] m.type = NeqRegex -> m.name \o <<" ", "d", "o", "e", "s", " ", "n", "o", "t", " ", "m", "a", "t",
        "c", "h", " ", "r", "e", "g", "e", "x", " ", "\"">> \o m.value \o <<"\"">>
    [] OTHER -> <<>>

\* n.name || '(any)'
nameOrAny(n) ==
  IF Has(n, "name") /\ n.name # <<>> THEN n.name ELSE <<"(", "a", "n", "y", ")">>

\* case 'vectorSelector' without the test of matchers.length
explainVectorSelectorAlwaysWhere(n) ==
  <<"S", "e", "l", "e", "c", "t", "s", " ", "t", "h", "e", " ", "m",
        "e", "t", "r", "i", "c", " ", "\"">> \o nameOrAny(n) \o <<"\"">> \o <<" ", "w", "h", "e", "r", "e", " ">>
  \o (IF Has(n, "matchers")
      THEN join([i \in 1..Len(n.matchers) |-> matcherDescription(n.matchers[i])],
                <<" ", "A", "N", "D", " ">>)
      ELSE <<>>)

\* case 'vectorSelector'
explainVectorSelector(n) ==
  LET explanation == <<"S", "e", "l", "e", "c", "t", "s", " ", "t", "h", "e", " ", "m",
        "e", "t", "r", "i", "c", " ", "\"">> \o nameOrAny(n) \o <<"\"">>
  IN IF Has(n, "matchers") /\ Len(n.matchers) > 0
     THEN explanation \o <<" ", "w", "h", "e", "r", "e", " ">>
          \o join([i \in 1..Len(n.matchers) |-> matcherDescription(n.matchers[i])],
                  <<" ", "A", "N", "D", " ">>)
     ELSE explanation

\* case 'matrixSelector'
explainMatrixSelector(n) ==
  LET duration == IF Has(n, "range") /\ ~IsZero(n.range)
                  THEN formatDuration(n.range) ELSE <<"5", " ", "m", "i", "n", "u", "t", "e", "s">>
      explanation == <<"S", "e", "l", "e", "c", "t", "s", " ">> \o duration \o <<" ", "o", "f", " ", "d", "a", "t", "a", " ", "f", "o", "r", " ",
        "\"">>
                     \o nameOrAny(n) \o <<"\"">>
  IN IF Has(n, "matchers") /\ Len(n.matchers) > 0
     THEN explanation \o <<" ", "w", "i", "t", "h", " ", "l", "a", "b", "e", "l", " ", "f",
        "i", "l", "t", "e", "r", "s">>
     ELSE explanation

\* case 'binaryExpr'
explainBinaryExpr(n) ==
  LET found == lookup(binaryDescriptions, fieldOrEmpty(n, "op"))
  IN <<"B", "i", "n", "a", "r", "y", " ", "o", "p", "e", "r", "a", "t",
        "i", "o", "n", " ", "t", "h", "a", "t", " ">>
     \o (IF found.defined THEN found.text ELSE fieldText(n, "op"))
     \o <<" ", "t", "w", "o", " ", "e", "x", "p", "r", "e", "s", "s", "i",
        "o", "n", "s">>

\* case 'unaryExpr'
explainUnaryExpr(n) ==
  <<"U", "n", "a", "r", "y", " ">>
  \o (IF Has(n, "op") /\ n.op = <<"-">> THEN <<"n", "e", "g", "a", "t", "i", "o", "n">> ELSE <<"p", "l", "u", "s">>)
  \o <<" ", "o", "p", "e", "r", "a", "t", "o", "r">>

explainQuery(n) ==
  LET type == IF Has(n, "type") THEN n.type ELSE "undefined"
  IN CASE type = "aggregation" -> explainAggregation(n)
       [] type = "call" -> explainCall(n)
       [] type = "vectorSelector" -> explainVectorSelector(n)
       [] type = "matrixSelector" -> explainMatrixSelector(n)
       [] type = "binaryExpr" -> explainBinaryExpr(n)
       [] type = "numberLiteral" -> <<"A", " ", "s", "c", "a", "l", "a", "r", " ", "n", "u", "m", "b",
        "e", "r", " ", "w", "i", "t", "h", " ", "v", "a", "l", "u", "e",
        " ">> \o fieldText(n, "value")
       [] type = "stringLiteral" -> <<"A", " ", "s", "t", "r", "i", "n", "g", " ", "v", "a", "l", "u",
        "e", ":", " ", "\"">> \o fieldText(n, "value") \o <<"\"">>
       [] type = "parenExpr" -> <<"P", "a", "r", "e", "n", "t", "h", "e", "s", "e", "s", " ", "g",
        "r", "o", "u", "p", "i", "n", "g", " ", "a", " ", "s", "u", "b",
        "-", "e", "x", "p", "r", "e", "s", "s", "i", "o", "n">>
       [] type = "unaryExpr" -> explainUnaryExpr(n)
       [] type = "subquery" ->
            <<"A", " ", "s", "u", "b", "q", "u", "e", "r", "y", " ", "t", "h",
        "a", "t", " ", "e", "v", "a", "l", "u", "a", "t", "e", "s", " ",
        "a", "n", " ", "e", "x", "p", "r", "e", "s", "s", "i", "o", "n",
        " ", "o", "v", "e", "r", " ", "a", " ", "t", "i", "m", "e", " ",
        "r", "a", "n", "g", "e">>
       [] OTHER -> <<"P", "r", "o", "m", "Q", "L", " ", "e", "x", "p", "r", "e", "s",
        "s", "i", "o", "n">>

\* ------------------------------------------------------------------------
\* Explaining nodes: parseQuery builds the AST of a query, the caller walks
\* down to a node of it and hands that node to explainQuery. explainQuery is
\* exported, so a caller may also hand it a ParsedNode it made itself.
\* ------------------------------------------------------------------------
ExplainMatchers ==
  {Inner("UnquotedLabelMatcher",
         <<Leaf("LabelName", <<"s", "t", "a", "t", "u", "s">>),
           Leaf("MatchOp", o),
           Leaf("StringLiteral", <<"\"", "a", "\"">>)>>) :
     o \in {EqlSingle, Neq, EqlRegex, NeqRegex}}
  \cup
  {Inner("UnquotedLabelMatcher",
         <<Leaf("LabelName", <<"a">>),
           Leaf("MatchOp", EqlSingle),
           Leaf("StringLiteral", <<"\"", "\"">>)>>)}

\* a vector selector: a metric name, label matchers in braces, or both
VectorSelectorInputs ==
  {Inner("VectorSelector", id \o lm) :
     id \in Opt({Leaf("Identifier", Up)}),
     lm \in Opt({NodeOf("LabelMatchers", ms) :
                   ms \in SeqsUpTo(ExplainMatchers, MaxKids - 1)})}
  \ {Inner("VectorSelector", <<>>)}

\* sum by (status) (rate(demo_api_request_duration_seconds_count{status=~"[45].."}[5m]))
SampleMetric == <<"d", "e", "m", "o", "_", "a", "p", "i", "_", "r", "e", "q", "u",
        "e", "s", "t", "_", "d", "u", "r", "a", "t", "i", "o", "n", "_",
        "s", "e", "c", "o", "n", "d", "s", "_", "c", "o", "u", "n", "t">>

SampleQueryShape ==
  Inner("AggregateExpr",
    <<Leaf("AggregateOp", <<"s", "u", "m">>),
      Inner("AggregateModifier",
        <<Leaf("By", <<"b", "y">>),
          Inner("GroupingLabels", <<Leaf("LabelName", <<"s", "t", "a", "t", "u", "s">>)>>)>>),
      Inner("FunctionCallBody",
        <<RateCall(
            Inner("MatrixSelector",
              <<Inner("VectorSelector",
                  <<Leaf("Identifier", SampleMetric),
                    Inner("LabelMatchers",
                      <<Inner("UnquotedLabelMatcher",
                          <<Leaf("LabelName", <<"s", "t", "a", "t", "u", "s">>),
                            Leaf("MatchOp", EqlRegex),
                            Leaf("StringLiteral", <<"\"", "[", "4", "5", "]", ".", ".", "\"">>)>>)>>)>>),
                Leaf("Duration", <<"5", "m">>)>>))>>)>>)

SampleQuery ==
  <<"s", "u", "m", " ", "b", "y", " ", "(", "s", "t", "a", "t", "u",
        "s", ")", " ", "(", "r", "a", "t", "e", "(", "d", "e", "m", "o",
        "_", "a", "p", "i", "_", "r", "e", "q", "u", "e", "s", "t", "_",
        "d", "u", "r", "a", "t", "i", "o", "n", "_", "s", "e", "c", "o",
        "n", "d", "s", "_", "c", "o", "u", "n", "t">>
  \o <<"{", "s", "t", "a", "t", "u", "s", "=", "~", "\"", "[", "4", "5",
        "]", ".", ".", "\"", "}", "[", "5", "m", "]", ")", ")">>

\* the expressions a query may consist of, each under the top node
ExplainShapes ==
  {Inner("PromQL", <<s>>) :
     s \in VectorSelectorInputs \cup MatrixInputs \cup AggregateInputs
           \cup {SampleQueryShape}}

\* ParsedNode values a caller makes by hand: every type tag, each optional
\* field present or absent
OptField(f, S) == {<<>>} \cup {f :> v : v \in S}

HandMadeOps ==
  {<<"s", "u", "m">>, <<"q", "u", "a", "n", "t", "i", "l", "e">>, <<"c", "o", "u", "n", "t", "_", "v", "a", "l", "u", "e", "s">>, <<"c", "o", "n", "s", "t", "r", "u", "c", "t", "o", "r">>, <<"v", "a", "l", "u", "e", "O", "f">>, <<>>}

HandMadeGroupings == {<<>>, <<<<"a">>>>, <<<<"a">>, <<"s", "t", "a", "t", "u", "s">>>>}

HandMadeKids ==
  {<<>>,
   <<[type |-> "vectorSelector", name |-> Up, matchers |-> <<>>]>>,
   <<[type |-> "numberLiteral", value |-> <<"5">>],
     [type |-> "error", text |-> <<"?">>]>>}

HandMadeMatchers ==
  {<<>>,
   <<[name |-> <<"a">>, type |-> EqlSingle, value |-> <<"b">>]>>,
   <<[name |-> <<"a">>, type |-> Neq, value |-> <<>>],
     [name |-> <<"j", "o", "b">>, type |-> NeqRegex, value |-> <<"x", ".", "*">>]>>,
   <<[name |-> <<"a">>, type |-> EqlRegex, value |-> <<"b">>],
     [name |-> <<"a">>, type |-> <<"=", "=">>, value |-> <<"b">>]>>}

HandMadeRanges ==
  {Zero, Num(0, 1), Num(0, 999), Num(0, 1000), Num(0, 59999), Num(0, 300000),
   Num(0, 3600000), Num(0, 5400000), Num(0, 86399999), Num(0, 90000000),
   Num(31536, 0)}

HandMadeNames == {<<>>, Up}

HandMadeFuncNames ==
  {<<"r", "a", "t", "e">>, <<"h", "i", "s", "t", "o", "g", "r", "a", "m", "_", "q", "u", "a",
        "n", "t", "i", "l", "e">>, <<"m", "y", "_", "f", "u", "n", "c">>, <<"t", "o", "S", "t", "r", "i", "n", "g">>,
   <<"_", "_", "p", "r", "o", "t", "o", "_", "_">>, <<>>}

HandMadeBinaryOps ==
  {<<"+">>, <<">", "=">>, <<"u", "n", "l", "e", "s", "s">>, <<"a", "t", "a", "n", "2">>, <<"h", "a", "s", "O", "w", "n", "P", "r", "o", "p", "e", "r", "t",
        "y">>, <<>>}

HandMadeNodes ==
  {("type" :> "aggregation") @@ o @@ g @@ w @@ c :
     o \in OptField("op", HandMadeOps),
     g \in OptField("grouping", HandMadeGroupings),
     w \in OptField("without", BOOLEAN),
     c \in OptField("children", HandMadeKids)}
  \cup
  {("type" :> "call") @@ f @@ a :
     f \in OptField("funcName", HandMadeFuncNames),
     a \in OptField("args", HandMadeKids)}
  \cup
  {("type" :> "vectorSelector") @@ n @@ m :
     n \in OptField("name", HandMadeNames),
     m \in OptField("matchers", HandMadeMatchers)}
  \cup
  {("type" :> "matrixSelector") @@ n @@ m @@ r :
     n \in OptField("name", HandMadeNames),
     m \in OptField("matchers", HandMadeMatchers),
     r \in OptField("range", HandMadeRanges)}
  \cup
  {("type" :> "binaryExpr") @@ o @@ c :
     o \in OptField("op", HandMadeBinaryOps),
     c \in OptField("children", HandMadeKids)}
  \cup
  {("type" :> t) @@ v @@ o @@ c :
     t \in {"numberLiteral", "stringLiteral", "parenExpr", "unaryExpr",
            "subquery", "error", "offset"},
     v \in OptField("value", {<<>>, <<"5">>}),
     o \in OptField("op", {<<"-">>, <<"+">>}),
     c \in OptField("children", HandMadeKids)}
  \cup
  {o @@ c : o \in OptField("op", {<<"s", "u", "m">>}), c \in OptField("children", HandMadeKids)}

InitExplain ==
  /\ \/ \E s \in ExplainShapes :
          /\ tree = Layout(s, 0)
          /\ query = ShapeText(s)
          /\ ast = NoAst
          /\ pc = "call"
     \/ \E n \in HandMadeNodes :
          /\ tree = NoTree
          /\ query = <<>>
          /\ ast = n
          /\ pc = "built"
  /\ fault = NoFault
  /\ durationStr = <<>>
  /\ result = NoResult
  /\ buildCalls = 0
  /\ log = <<>>
  /\ locals = NoLocals

\* the caller parses the query and keeps the AST of a successful parse
ExplainParse ==
  /\ pc = "call"
  /\ LET r == parseQuery(query, tree, fault)
     IN /\ buildCalls' = buildCalls + r.buildCalls
        /\ IF r.result.success
           THEN ast' = r.result.ast /\ pc' = "built"
           ELSE ast' = ast /\ pc' = "failed"
  /\ UNCHANGED <<query, tree, fault, durationStr, result, log, locals>>

\* the caller steps from a node to one of its children or arguments
ExplainDescend ==
  /\ pc = "built"
  /\ \E n \in (IF Has(ast, "children") THEN {ast.children[i] : i \in 1..Len(ast.children)}
               ELSE {})
              \cup (IF Has(ast, "args") THEN {ast.args[i] : i \in 1..Len(ast.args)}
                    ELSE {}) :
       ast' = n
  /\ UNCHANGED <<query, tree, fault, durationStr, pc, result, buildCalls, log, locals>>

ExplainCall ==
  /\ pc = "built"
  /\ result' = explainQuery(ast)
  /\ pc' = "done"
  /\ UNCHANGED <<query, tree, fault, durationStr, buildCalls, ast, log, locals>>

NextExplain == ExplainParse \/ ExplainDescend \/ ExplainCall

SpecExplain == InitExplain /\ [][NextExplain]_vars

\* ------------------------------------------------------------------------
\* Repeated calls of the three entry points
\* ------------------------------------------------------------------------
MaxCalls == 3

\* total and regex declared at module level: a call starts from what the
\* previous call left in them
localsKeptAcrossCalls(previous) == previous

\* let total = 0; const regex = /.../g: every call declares them anew, and a
\* new regex starts at the first character
localsAtCall(previous) == [total |-> Zero, lastIndex |-> 1]

\* a call of parseDuration given what the previous call left behind: the value
\* returned, and total and the regex cursor when the loop has ended (the exec
\* that found nothing put the cursor back at the start)
parseDurationCall(s, previous) ==
  LET start == localsAtCall(previous)
      total == DurationLoop(s, start.lastIndex, start.total)
  IN [value |-> IF IsZero(total) THEN DefaultRange ELSE total,
      locals |-> [total |-> total, lastIndex |-> 1]]

\* what the case of a matrix selector with a vector selector under it asks
\* of parseDuration: with a duration under it the range is the value of a
\* call on the duration's text, without one no call is made
rangeCallAt(node, q) ==
  LET durationNode == IF getChild(node, "Duration") # Null
                      THEN getChild(node, "Duration")
                      ELSE getChild(node, "NumberDurationLiteralInDurationContext")
  IN IF node.name = "MatrixSelector" /\ getChild(node, "VectorSelector") # Null
     THEN IF durationNode # Null
          THEN <<[called |-> TRUE, text |-> SliceOf(durationNode, q)]>>
          ELSE <<[called |-> FALSE]>>
     ELSE <<>>

\* the ranges buildAST sets while building node, in the order it sets them:
\* those of the nodes it recurses into, then the node's own
RECURSIVE durationCalls(_, _), durationCallsOfAll(_, _, _)
durationCalls(node, q) ==
  CHOOSE calls \in {durationCallsOfAll(recursiveCalls(n), 1, q) \o rangeCallAt(n, q) :
                      n \in {node}} : TRUE

durationCallsOfAll(nodes, i, q) ==
  IF i > Len(nodes) THEN <<>>
  ELSE durationCalls(nodes[i], q) \o durationCallsOfAll(nodes, i + 1, q)

\* the calls of parseDuration made one after the other, the first given what
\* the call before it left behind: the ranges obtained, and what the last
\* call leaves
RECURSIVE runDurationCalls(_, _, _, _)
runDurationCalls(calls, i, previous, values) ==
  IF i > Len(calls) THEN [values |-> values, locals |-> previous]
  ELSE IF ~calls[i].called
  THEN runDurationCalls(calls, i + 1, previous, Append(values, DefaultRange))
  ELSE LET call == parseDurationCall(calls[i].text, previous)
       IN runDurationCalls(calls, i + 1, call.locals, Append(values, call.value))

\* range: parseDuration(...): the matrix selectors of the AST, in the order
\* they were built, take the values the calls returned
RECURSIVE setRanges(_, _), setRangesOfAll(_, _, _, _)
setRanges(n, values) ==
  IF n.type = "matrixSelector" /\ Has(n, "range")
  THEN [node |-> [n EXCEPT !.range = Head(values)], rest |-> Tail(values)]
  ELSE IF Has(n, "children")
  THEN LET done == setRangesOfAll(n.children, 1, values, <<>>)
       IN [node |-> [n EXCEPT !.children = done.nodes], rest |-> done.rest]
  ELSE IF Has(n, "args")
  THEN LET done == setRangesOfAll(n.args, 1, values, <<>>)
       IN [node |-> [n EXCEPT !.args = done.nodes], rest |-> done.rest]
  ELSE [node |-> n, rest |-> values]

setRangesOfAll(ns, i, values, built) ==
  IF i > Len(ns) THEN [nodes |-> built, rest |-> values]
  ELSE LET one == setRanges(ns[i], values)
       IN setRangesOfAll(ns, i + 1, one.rest, Append(built, one.node))

RepeatDurations ==
  {<<>>, <<"5", "m">>, <<"1", "h">>, <<"1", "h", "5", "m">>, <<"x">>, <<"0", "s">>}

\* the parser is a function of the text: one tree per query
RepeatShapes ==
  {Inner("PromQL", <<s>>) : s \in VectorSelectorInputs}
  \cup {Inner("PromQL", <<SampleQueryShape>>), Leaf("PromQL", <<>>),
        Inner("PromQL",
              <<[name |-> "ParenExpr", isError |-> TRUE, tok |-> <<"(">>,
                 children |-> <<>>]>>)}

RepeatQueries ==
  {<<>>, <<"(">>,
   <<"u", "p", "{", "s", "t", "a", "t", "u", "s", "=", "~", "\"", "a", "\"",
     ",", "a", "=", "\"", "\"", "}">>,
   SampleQuery}

parserParse(q) == Layout(CHOOSE s \in RepeatShapes : ShapeText(s) = q, 0)

RepeatNodes ==
  {parseQuery(q, parserParse(q), NoFault).result.ast : q \in RepeatQueries \ {<<>>, <<"(">>}}
  \cup {[type |-> "call", funcName |-> <<"r", "a", "t", "e">>, args |-> <<>>],
        [type |-> "matrixSelector", name |-> Up, range |-> Num(0, 5400000)],
        [type |-> "error", text |-> <<>>]}

InitRepeat ==
  /\ query = <<>>
  /\ tree = NoTree
  /\ fault = NoFault
  /\ durationStr = <<>>
  /\ pc = "call"
  /\ result = NoResult
  /\ buildCalls = 0
  /\ ast = NoAst
  /\ log = <<>>
  /\ locals = NoLocals

RepeatParseDuration ==
  /\ Len(log) < MaxCalls
  /\ \E s \in RepeatDurations :
       LET call == parseDurationCall(s, locals)
       IN /\ durationStr' = s
          /\ result' = call.value
          /\ locals' = call.locals
          /\ log' = Append(log, [fn |-> "parseDuration", arg |-> s, result |-> call.value])
  /\ UNCHANGED <<query, tree, fault, pc, buildCalls, ast>>

\* parseQuery: the tree is parsed and built once; the ranges of its matrix
\* selectors come from the calls of parseDuration made while building, the
\* first of them given what the last call before left behind
RepeatParseQuery ==
  /\ Len(log) < MaxCalls
  /\ \E q \in RepeatQueries :
     \E t \in {parserParse(q)} :
     \E call \in {parseQuery(q, t, fault)} :
     \E run \in {runDurationCalls(IF call.result.success
                                  THEN durationCalls(firstChild(t), q) ELSE <<>>,
                                  1, locals, <<>>)} :
     \E outcome \in {IF call.result.success
                     THEN [success |-> TRUE,
                           ast |-> setRanges(call.result.ast, run.values).node]
                     ELSE call.result} :
       /\ query' = q
       /\ tree' = t
       /\ result' = outcome
       /\ buildCalls' = buildCalls + call.buildCalls
       /\ locals' = run.locals
       /\ log' = Append(log, [fn |-> "parseQuery", arg |-> q, result |-> outcome])
  /\ UNCHANGED <<fault, durationStr, pc, ast>>

RepeatExplainQuery ==
  /\ Len(log) < MaxCalls
  /\ \E n \in RepeatNodes :
       /\ ast' = n
       /\ result' = explainQuery(n)
       /\ log' = Append(log, [fn |-> "explainQuery", arg |-> n, result |-> explainQuery(n)])
  /\ UNCHANGED <<query, tree, fault, durationStr, pc, buildCalls, locals>>

NextRepeat == RepeatParseDuration \/ RepeatParseQuery \/ RepeatExplainQuery

SpecRepeat == InitRepeat /\ [][NextRepeat]_vars

C11_QueryTwice ==
  /\ Len(log) = MaxCalls
  /\ log[1].fn = "parseQuery" /\ log[1].arg = SampleQuery
  /\ log[2].fn = "parseDuration" /\ log[2].result = Num(0, 3600000)
  /\ log[3].fn = "parseQuery" /\ log[3].arg = SampleQuery
  /\ log[3].result = log[1].result
  /\ locals.total = Num(0, 300000)

\* ------------------------------------------------------------------------
\* C12
\* ------------------------------------------------------------------------
\* the fields of a node that are its own: not text, not its children or args
OwnFields ==
  {"type", "op", "name", "matchers", "range", "grouping", "without",
   "funcName", "value"}

OwnPart(n) == [f \in DOMAIN n \cap OwnFields |-> n[f]]

\* C12: explainQuery describes the node it is given and nothing below it:
\* the explanation of a node is the explanation of every node that has the
\* same type and own fields, whatever its text, children and args are.
C12_ExplainsOnlyTheNode ==
  pc = "done" =>
    /\ result = explainQuery(OwnPart(ast))
    /\ \A kids \in HandMadeKids :
         /\ result = explainQuery(OwnPart(ast) @@ ("children" :> kids))
         /\ result = explainQuery(OwnPart(ast) @@ ("args" :> kids)
                                  @@ ("text" :> <<"?">>))

\* the aggregation of a parsed query, with the call under it, was explained
C12_Witness ==
  /\ pc = "done"
  /\ tree # NoTree
  /\ ast.type = "aggregation"
  /\ Len(ast.children) = 1
  /\ ast.children[1].type = "call"
  /\ Len(ast.children[1].args) = 1

\* ------------------------------------------------------------------------
\* C13
\* ------------------------------------------------------------------------
\* the phrase for an operator: its table entry when the table has one,
\* "applies {op} to" otherwise
AggregationPhrase(n) ==
  LET known == {i \in 1..Len(aggregationDescriptions) :
                  Has(n, "op") /\ aggregationDescriptions[i].k = n.op}
  IN IF known # {}
     THEN aggregationDescriptions[CHOOSE i \in known : TRUE].v
     ELSE <<"a", "p", "p", "l", "i", "e", "s", " ">> \o (IF Has(n, "op") THEN n.op ELSE <<"u", "n", "d", "e", "f", "i", "n", "e", "d">>) \o <<" ", "t", "o">>

GroupingIsNonEmpty(n) == Has(n, "grouping") /\ n.grouping # <<>>

RECURSIVE CommaSeparated(_)
CommaSeparated(labels) ==
  IF Len(labels) = 1 THEN labels[1]
  ELSE labels[1] \o <<",", " ">> \o CommaSeparated(Tail(labels))

AggregationSuffix(n) ==
  IF ~GroupingIsNonEmpty(n) THEN <<>>
  ELSE IF Has(n, "without") /\ n.without
  THEN <<",", " ", "e", "x", "c", "l", "u", "d", "i", "n", "g", " ", "l",
        "a", "b", "e", "l", "s", ":", " ">> \o CommaSeparated(n.grouping)
  ELSE <<",", " ", "g", "r", "o", "u", "p", "e", "d", " ", "b", "y", ":",
        " ">> \o CommaSeparated(n.grouping)

\* C13: the explanation of an Aggregation node is "This expression {phrase}
\* the values", the phrase being the table entry of a known operator and
\* "applies {op} to" for any other, followed, exactly when grouping is
\* non-empty, by ", excluding labels: " (without) or ", grouped by: " and the
\* labels joined by ", ".
C13_AggregationExplanation ==
  (pc = "done" /\ Has(ast, "type") /\ ast.type = "aggregation") =>
    result = <<"T", "h", "i", "s", " ", "e", "x", "p", "r", "e", "s", "s", "i",
        "o", "n", " ">> \o AggregationPhrase(ast) \o <<" ", "t", "h", "e", " ", "v", "a", "l", "u", "e", "s">>
             \o AggregationSuffix(ast)

\* the same statement for the operators that are not property names of
\* Object.prototype
C13_HoldsForOtherOperators ==
  (pc = "done" /\ Has(ast, "type") /\ ast.type = "aggregation"
     /\ fieldOrEmpty(ast, "op") \notin ObjectPrototypeKeys) =>
    result = <<"T", "h", "i", "s", " ", "e", "x", "p", "r", "e", "s", "s", "i",
        "o", "n", " ">> \o AggregationPhrase(ast) \o <<" ", "t", "h", "e", " ", "v", "a", "l", "u", "e", "s">>
             \o AggregationSuffix(ast)

\* ------------------------------------------------------------------------
\* C14
\* ------------------------------------------------------------------------
Relation(op) ==
  CASE op = <<"=">> -> <<"e", "q", "u", "a", "l", "s">>
    [] op = <<"!", "=">> -> <<"d", "o", "e", "s", " ", "n", "o", "t", " ", "e", "q", "u", "a",
        "l">>
    [] op = <<"=", "~">> -> <<"m", "a", "t", "c", "h", "e", "s", " ", "r", "e", "g", "e", "x">>
    [] op = <<"!", "~">> -> <<"d", "o", "e", "s", " ", "n", "o", "t", " ", "m", "a", "t", "c",
        "h", " ", "r", "e", "g", "e", "x">>

RenderedMatcher(m) ==
  m.name \o <<" ">> \o Relation(m.type) \o <<" ", "\"">> \o m.value \o <<"\"">>

RECURSIVE RenderedMatchers(_)
RenderedMatchers(ms) ==
  IF Len(ms) = 1 THEN RenderedMatcher(ms[1])
  ELSE RenderedMatcher(ms[1]) \o <<" ", "A", "N", "D", " ">> \o RenderedMatchers(Tail(ms))

ShownName(n) == IF Has(n, "name") /\ n.name # <<>> THEN n.name ELSE <<"(", "a", "n", "y", ")">>

HasMatchers(n) == Has(n, "matchers") /\ n.matchers # <<>>

HasTheFourOperators(n) ==
  Has(n, "matchers") =>
    \A i \in 1..Len(n.matchers) :
      n.matchers[i].type \in {<<"=">>, <<"!", "=">>, <<"=", "~">>, <<"!", "~">>}

\* the query is one vector selector
QueryIsVectorSelector ==
  /\ tree # NoTree
  /\ Len(tree.children) = 1
  /\ tree.children[1].name = "VectorSelector"

\* C14: the VectorSelector built from a vector selector without a metric
\* identifier child has name "", and matchers [] when there is no label
\* matchers child; the explanation of a VectorSelector is Selects the metric
\* "{name, or (any)}", followed only when matchers is non-empty by " where "
\* and each matcher as {name} {relation} "{value}", joined by " AND " in order.
C14_VectorSelectorNameAndExplanation ==
  /\ (QueryIsVectorSelector /\ pc \in {"built", "done"}) =>
       /\ ast.type = "vectorSelector"
       /\ ~HasChildOfKind(tree.children[1], "Identifier") => ast.name = <<>>
       /\ HasChildOfKind(tree.children[1], "Identifier") =>
            ast.name = TextOf(FirstChildOfKind(tree.children[1], "Identifier"))
       /\ ~HasChildOfKind(tree.children[1], "LabelMatchers") => ast.matchers = <<>>
  /\ (pc = "done" /\ Has(ast, "type") /\ ast.type = "vectorSelector"
        /\ HasTheFourOperators(ast)) =>
       result = <<"S", "e", "l", "e", "c", "t", "s", " ", "t", "h", "e", " ", "m",
        "e", "t", "r", "i", "c", " ", "\"">> \o ShownName(ast) \o <<"\"">>
                \o (IF HasMatchers(ast)
                    THEN <<" ", "w", "h", "e", "r", "e", " ">> \o RenderedMatchers(ast.matchers) ELSE <<>>)

\* a selector without a metric name and with two matchers was parsed and
\* explained
C14_Witness ==
  /\ QueryIsVectorSelector
  /\ pc = "done"
  /\ ~HasChildOfKind(tree.children[1], "Identifier")
  /\ ast.name = <<>>
  /\ Len(ast.matchers) = 2
  /\ ast.matchers[1].type = <<"!", "~">>
  /\ ast.matchers[2].type = <<"=">>
  /\ result = <<"S", "e", "l", "e", "c", "t", "s", " ", "t", "h", "e", " ", "m",
        "e", "t", "r", "i", "c", " ", "\"", "(", "a", "n", "y", ")",
        "\"", " ", "w", "h", "e", "r", "e", " ", "s", "t", "a", "t", "u",
        "s", " ", "d", "o", "e", "s", " ", "n", "o", "t", " ", "m", "a",
        "t", "c", "h", " ", "r", "e", "g", "e", "x", " ", "\"", "a",
        "\"">>
              \o <<" ", "A", "N", "D", " ", "a", " ", "e", "q", "u", "a", "l", "s",
        " ", "\"", "\"">>
\* ------------------------------------------------------------------------
\* C15
\* ------------------------------------------------------------------------
\* the value in whole units of 100 seconds: a day is 864 of them and an hour
\* 36, and a value below one hour fits in the low limb
HundredSeconds(x) == x.hi * 10 + x.lo \div 100000

RECURSIVE CountText(_)
CountText(n) ==
  IF n < 10 THEN <<DigitChars[n + 1]>>
  ELSE CountText(n \div 10) \o <<DigitChars[(n % 10) + 1]>>

\* a count and one unit: the largest unit of d, h, m, s, ms that is not more
\* than the value, and how many times it fits
HumanDuration(x) ==
  IF HundredSeconds(x) >= 864 THEN CountText(HundredSeconds(x) \div 864) \o <<"d">>
  ELSE IF HundredSeconds(x) >= 36 THEN CountText(HundredSeconds(x) \div 36) \o <<"h">>
  ELSE IF x.lo >= 60000 THEN CountText(x.lo \div 60000) \o <<"m">>
  ELSE IF x.lo >= 1000 THEN CountText(x.lo \div 1000) \o <<"s">>
  ELSE CountText(x.lo) \o <<"m", "s">>

MatrixSelectorText(n) ==
  <<"S", "e", "l", "e", "c", "t", "s", " ">> \o HumanDuration(n.range) \o <<" ", "o", "f", " ", "d", "a", "t", "a", " ", "f", "o", "r", " ",
        "\"">> \o ShownName(n)
  \o <<"\"">> \o (IF HasMatchers(n) THEN <<" ", "w", "i", "t", "h", " ", "l", "a", "b", "e", "l", " ", "f",
        "i", "l", "t", "e", "r", "s">> ELSE <<>>)

\* C15: the explanation of every MatrixSelector node built from a query is
\* Selects {count and unit of its range} of data for "{name or (any)}", with
\* " with label filters" appended exactly when matchers is non-empty.
C15_MatrixSelectorExplanation ==
  (pc = "done" /\ tree # NoTree /\ ast.type = "matrixSelector") =>
    /\ Has(ast, "range")
    /\ result = MatrixSelectorText(ast)

\* the same statement for every MatrixSelector node that has a range, built
\* or made by hand
C15_HoldsWithRange ==
  (pc = "done" /\ Has(ast, "type") /\ ast.type = "matrixSelector"
     /\ Has(ast, "range") /\ ~IsZero(ast.range)) =>
    result = MatrixSelectorText(ast)

\* ------------------------------------------------------------------------
\* C16
\* ------------------------------------------------------------------------
KnownTypes ==
  {"aggregation", "call", "vectorSelector", "matrixSelector", "binaryExpr",
   "numberLiteral", "stringLiteral", "parenExpr", "unaryExpr", "subquery"}

\* the positions of a key in a table
EntriesFor(table, key) == {i \in 1..Len(table) : table[i].k = key}

ShownFuncName(n) == IF Has(n, "funcName") THEN n.funcName ELSE <<"u", "n", "d", "e", "f", "i", "n", "e", "d">>

FunctionCallText(n) ==
  LET known == EntriesFor(funcDescriptions, ShownFuncName(n))
  IN <<"T", "h", "e", " ">> \o ShownFuncName(n) \o <<"(", ")", " ", "f", "u", "n", "c", "t", "i", "o", "n", " ">>
     \o (IF known # {} THEN funcDescriptions[CHOOSE i \in known : TRUE].v
         ELSE <<"a", "p", "p", "l", "i", "e", "s", " ">> \o ShownFuncName(n) \o <<"(", ")">>)

\* C16: explainQuery returns a string for every ParsedNode, whatever its type
\* tag and whichever optional fields it lacks: "PromQL expression" for an
\* Error node and for a type it does not know, "The {name}() function
\* {phrase}" for a FunctionCall, the phrase being the table entry of a known
\* name and "applies {name}()" for any other, and "Binary operation that
\* {verb phrase} two expressions" for a BinaryExpr with a listed operator.
C16_ExplainQueryTotal ==
  pc = "done" =>
    /\ result # NoResult
    /\ (~Has(ast, "type") \/ ast.type \notin KnownTypes) =>
         result = <<"P", "r", "o", "m", "Q", "L", " ", "e", "x", "p", "r", "e", "s",
        "s", "i", "o", "n">>
    /\ (Has(ast, "type") /\ ast.type = "call") => result = FunctionCallText(ast)
    /\ (Has(ast, "type") /\ ast.type = "binaryExpr" /\ Has(ast, "op")
          /\ EntriesFor(binaryDescriptions, ast.op) # {}) =>
         result = <<"B", "i", "n", "a", "r", "y", " ", "o", "p", "e", "r", "a", "t",
        "i", "o", "n", " ", "t", "h", "a", "t", " ">>
                  \o binaryDescriptions[CHOOSE i \in EntriesFor(binaryDescriptions, ast.op) : TRUE].v
                  \o <<" ", "t", "w", "o", " ", "e", "x", "p", "r", "e", "s", "s", "i",
        "o", "n", "s">>

\* the same statement for the function names that are not property names of
\* Object.prototype
C16_HoldsForOtherNames ==
  (pc = "done" /\ fieldOrEmpty(ast, "funcName") \notin ObjectPrototypeKeys)
    => C16_ExplainQueryTotal

\* ------------------------------------------------------------------------
\* C17
\* ------------------------------------------------------------------------
SampleMatrixSelector ==
  [type |-> "matrixSelector",
   name |-> SampleMetric,
   range |-> Num(0, 300000),
   matchers |-> <<[name |-> <<"s", "t", "a", "t", "u", "s">>, type |-> <<"=", "~">>,
                   value |-> <<"[", "4", "5", "]", ".", ".">>]>>]

SampleExplanation == <<"T", "h", "i", "s", " ", "e", "x", "p", "r", "e", "s", "s", "i",
        "o", "n", " ", "s", "u", "m", "s", " ", "t", "h", "e", " ", "v",
        "a", "l", "u", "e", "s", ",", " ", "g", "r", "o", "u", "p", "e",
        "d", " ", "b", "y", ":", " ", "s", "t", "a", "t", "u", "s">>

IsSampleAst(n) ==
  /\ OwnPart(n) = [type |-> "aggregation", op |-> <<"s", "u", "m">>,
                   grouping |-> <<<<"s", "t", "a", "t", "u", "s">>>>, without |-> FALSE]
  /\ Len(n.children) = 1
  /\ OwnPart(n.children[1]) = [type |-> "call", funcName |-> <<"r", "a", "t", "e">>]
  /\ Len(n.children[1].args) = 1
  /\ OwnPart(n.children[1].args[1]) = SampleMatrixSelector

\* C17: for the tree of sum by (status)
\* (rate(demo_api_request_duration_seconds_count{status=~"[45].."}[5m]))
\* parseQuery succeeds with an Aggregation of op sum, grouping [status],
\* without false, whose one child is the FunctionCall rate, whose one argument
\* is the MatrixSelector of the metric with range 300000 and the matcher
\* status =~ [45]..; the explanation of the outer node is "This expression
\* sums the values, grouped by: status".
C17_SampleQueryEndToEnd ==
  query = SampleQuery =>
    /\ pc # "failed"
    /\ LET r == parseQuery(query, tree, fault).result
       IN /\ r.success
          /\ IsSampleAst(r.ast)
          /\ pc \in {"built", "done"} => ast \in AstNodes(r.ast)
          /\ (pc = "done" /\ ast = r.ast) => result = SampleExplanation

\* the sample query was parsed and its outer node explained
C17_Witness ==
  /\ query = SampleQuery
  /\ tree.to = Len(SampleQuery)
  /\ pc = "done"
  /\ IsSampleAst(ast)
  /\ result = SampleExplanation

\* ------------------------------------------------------------------------
\* C18
\* ------------------------------------------------------------------------
HandledKinds ==
  {"PromQL", "Expr", "AggregateExpr", "FunctionCall", "BinaryExpr",
   "VectorSelector", "MatrixSelector", "SubqueryExpr", "NumberLiteral",
   "NumberDurationLiteral", "StringLiteral", "ParenExpr", "UnaryExpr"}

\* the expression-typed direct children of a node, in source order
RECURSIVE ExpressionChildrenFrom(_, _)
ExpressionChildrenFrom(kids, i) ==
  IF i > Len(kids) THEN <<>>
  ELSE (IF kids[i].name \in exprTypes THEN <<kids[i]>> ELSE <<>>)
       \o ExpressionChildrenFrom(kids, i + 1)

ExpressionChildren(node) == ExpressionChildrenFrom(node.children, 1)

AstsOf(nodes) == [i \in 1..Len(nodes) |-> buildAST(nodes[i], query)]

\* C18: buildAST returns a node for every tree, and for a node of a kind it
\* has no case for: the AST of its one expression-typed direct child when it
\* has exactly one, otherwise an Error node with the text of the node itself
\* and, as children, the ASTs of its expression-typed direct children in
\* order; the Error node has no children field when there are none.
C18_UnhandledKindTransparentOrError ==
  pc = "done" =>
    /\ Has(result, "type")
    /\ tree.name \notin HandledKinds =>
         LET found == ExpressionChildren(tree)
         IN IF Len(found) = 1 THEN result = buildAST(found[1], query)
            ELSE /\ result.type = "error"
                 /\ result.text = TextOf(tree)
                 /\ found = <<>> => ~Has(result, "children")
                 /\ found # <<>> =>
                      /\ Has(result, "children")
                      /\ result.children = AstsOf(found)

\* a node of unknown kind with two expression-typed children became an Error
\* node of two children, the first of them being what a nested node of
\* unknown kind with one expression-typed child let through
C18_Witness ==
  /\ pc = "done"
  /\ tree.name = "OffsetExpr"
  /\ Len(tree.children) = 3
  /\ tree.children[1].name = "StepInvariantExpr"
  /\ tree.children[2].name = "At"
  /\ tree.children[3].name = "VectorSelector"
  /\ result.type = "error"
  /\ Len(result.children) = 2
  /\ result.children[1].type = "numberLiteral"
  /\ result.children[2].type = "vectorSelector"

\* ------------------------------------------------------------------------
\* C19
\* ------------------------------------------------------------------------
\* C19: the args of the FunctionCall built from a function-call node are the
\* ASTs of the expression-typed direct children of its body, all of them and
\* in source order, and [] when it has no body; funcName is the text of its
\* function identifier child, and "unknown" when it has none.
C19_ArgsAreExpressionChildrenOfBody ==
  (pc = "done" /\ tree.name = "FunctionCall") =>
    /\ result.type = "call"
    /\ IF HasChildOfKind(tree, "FunctionCallBody")
       THEN LET found == ExpressionChildren(FirstChildOfKind(tree, "FunctionCallBody"))
            IN /\ Len(result.args) = Len(found)
               /\ \A i \in 1..Len(found) : result.args[i] = buildAST(found[i], query)
       ELSE result.args = <<>>
    /\ IF HasChildOfKind(tree, "FunctionIdentifier")
       THEN result.funcName = TextOf(FirstChildOfKind(tree, "FunctionIdentifier"))
       ELSE result.funcName = <<"u", "n", "k", "n", "o", "w", "n">>

\* a call without a function identifier whose body holds an expression, a
\* node that is no expression, and another expression
C19_Witness ==
  /\ pc = "done"
  /\ tree.name = "FunctionCall"
  /\ ~HasChildOfKind(tree, "FunctionIdentifier")
  /\ Len(tree.children) = 1
  /\ Len(tree.children[1].children) = 3
  /\ tree.children[1].children[2].name = "LabelName"
  /\ result.funcName = <<"u", "n", "k", "n", "o", "w", "n">>
  /\ Len(result.args) = 2
  /\ result.args[1].type = "stringLiteral"
  /\ result.args[2].type = "vectorSelector"

\* ------------------------------------------------------------------------
\* C20
\* ------------------------------------------------------------------------
OperatorTokenKinds ==
  {"Add", "Sub", "Mul", "Div", "Mod", "Pow", "Eql", "Neq", "Lss", "Lte", "Gtr",
   "Gte", "And", "Or", "Unless"}

\* the kinds of the trees whose name contains Op
KindsNamedOp == {"AggregateOp", "MatchOp", "BinaryOp", "UnaryOp"}

IsOperatorToken(c) ==
  c.name \notin exprTypes /\ c.name \in OperatorTokenKinds \cup KindsNamedOp

NoExpressionPositions(node) ==
  {i \in 1..Len(node.children) : node.children[i].name \notin exprTypes}

OperatorTokenPositions(node) ==
  {i \in 1..Len(node.children) : IsOperatorToken(node.children[i])}

\* the text of the child at the last of these positions, '' if there is none
TextOfLast(node, positions) ==
  IF positions = {} THEN <<>>
  ELSE TextOf(node.children[CHOOSE i \in positions : \A j \in positions : j <= i])

\* C20 as stated: every direct child of a binary-expression node is an
\* operand, built and appended to children in order, or an operator token
\* whose text becomes op; whatever the number of operands the result is a
\* BinaryExpr holding them.
C20_EveryChildOperandOrOperator ==
  (pc = "done" /\ tree.name = "BinaryExpr") =>
    /\ result.type = "binaryExpr"
    /\ result.children = AstsOf(ExpressionChildren(tree))
    /\ result.op = TextOfLast(tree, NoExpressionPositions(tree))

\* C20, amended: a direct child of a binary-expression node is an operand, an
\* operator token (a child that is no expression and whose kind is one of the
\* fifteen operator kinds or has Op in its name) or neither, and then it is
\* passed over; op is the text of the last operator token, '' without one;
\* whatever the number of operands the result is a BinaryExpr holding them.
C20_OperandsOperatorsAndOthers ==
  (pc = "done" /\ tree.name = "BinaryExpr") =>
    /\ result.type = "binaryExpr"
    /\ result.children = AstsOf(ExpressionChildren(tree))
    /\ result.op = TextOfLast(tree, OperatorTokenPositions(tree))

\* up > bool 5 was built: two operands, the operator >, the modifier passed
\* over
C20_Witness ==
  /\ pc = "done"
  /\ tree.name = "BinaryExpr"
  /\ query = <<"u", "p", " ", ">", " ", "b", "o", "o", "l", " ", "5">>
  /\ Len(tree.children) = 4
  /\ tree.children[3].name = "BoolModifier"
  /\ result.type = "binaryExpr"
  /\ result.op = <<">">>
  /\ Len(result.children) = 2

\* ------------------------------------------------------------------------
\* C21
\* ------------------------------------------------------------------------
\* the expression-typed direct children of the body of an aggregation
BodyExpressions(node) ==
  IF HasChildOfKind(node, "FunctionCallBody")
  THEN ExpressionChildren(FirstChildOfKind(node, "FunctionCallBody"))
  ELSE <<>>

\* C21: the Aggregation built from an aggregation node has at most one child,
\* and exactly one, the AST of an expression-typed direct child of the body,
\* whenever the body has such a child, wherever it sits in the body.
C21_AggregationChildIsBodyExpression ==
  (pc = "done" /\ tree.name = "AggregateExpr") =>
    /\ Len(result.children) <= 1
    /\ BodyExpressions(tree) # <<>> =>
         /\ Len(result.children) = 1
         /\ \E i \in 1..Len(BodyExpressions(tree)) :
              result.children[1] = buildAST(BodyExpressions(tree)[i], query)

\* what the code does: the child is the AST of the first direct child of the
\* body when that one is expression-typed, and there is no child otherwise
C21_HoldsForFirstChildOfBody ==
  (pc = "done" /\ tree.name = "AggregateExpr") =>
    LET body == IF HasChildOfKind(tree, "FunctionCallBody")
                THEN FirstChildOfKind(tree, "FunctionCallBody").children ELSE <<>>
    IN IF body # <<>> /\ body[1].name \in exprTypes
       THEN result.children = <<buildAST(body[1], query)>>
       ELSE result.children = <<>>

\* ------------------------------------------------------------------------
\* C22
\* ------------------------------------------------------------------------
\* C22: the node built from a matrix selector without a vector selector child
\* and with a function call child is the FunctionCall built from that child,
\* with its funcName, args and text and without range, name and matchers; the
\* node built from a matrix selector with a vector selector child is a
\* MatrixSelector with the name and matchers of the AST of that child.
C22_MatrixSelectorDelegatesToCall ==
  (pc = "done" /\ tree.name = "MatrixSelector") =>
    /\ (~HasChildOfKind(tree, "VectorSelector") /\ HasChildOfKind(tree, "FunctionCall")) =>
         LET call == FirstChildOfKind(tree, "FunctionCall")
         IN /\ result = buildFunctionCall(call, query)
            /\ result.type = "call"
            /\ result.text = TextOf(call)
            /\ DOMAIN result \cap {"range", "name", "matchers"} = {}
    /\ HasChildOfKind(tree, "VectorSelector") =>
         LET vsAst == buildAST(FirstChildOfKind(tree, "VectorSelector"), query)
         IN /\ result.type = "matrixSelector"
            /\ result.name = vsAst.name
            /\ result.matchers = vsAst.matchers

\* rate(up)[5m] was built: a matrix selector whose operand is a call
C22_Witness ==
  /\ pc = "done"
  /\ tree.name = "MatrixSelector"
  /\ query = <<"r", "a", "t", "e", "(", "u", "p", ")", "[", "5", "m", "]">>
  /\ result.type = "call"
  /\ result.funcName = <<"r", "a", "t", "e">>
  /\ result.text = <<"r", "a", "t", "e", "(", "u", "p", ")">>
  /\ Len(result.args) = 1

\* ------------------------------------------------------------------------
\* C23
\* ------------------------------------------------------------------------
\* C23: the value of the StringLiteral built from a string-literal node of
\* text t is t without its first and its last character and otherwise
\* unchanged: its length is max(0, |t| - 2) and t is its first character,
\* the value, its last character whenever |t| >= 2; the value of the node
\* built from a number-literal node is its text.
C23_LiteralValues ==
  /\ (pc = "done" /\ tree.name = "StringLiteral") =>
       LET t == TextOf(tree)
       IN /\ result.type = "stringLiteral"
          /\ result.text = t
          /\ Len(result.value) = Max(0, Len(t) - 2)
          /\ Len(t) >= 2 => t = <<t[1]>> \o result.value \o <<t[Len(t)]>>
  /\ (pc = "done" /\ tree.name \in {"NumberLiteral", "NumberDurationLiteral"}) =>
       /\ result.type = "numberLiteral"
       /\ result.value = TextOf(tree)

\* a string literal with an escaped quote inside was built, the backslash kept
C23_Witness ==
  /\ pc = "done"
  /\ tree.name = "StringLiteral"
  /\ query = <<"\"", "\\", "\"", "\"">>
  /\ result.value = <<"\\", "\"">>

\* ------------------------------------------------------------------------
\* C24
\* ------------------------------------------------------------------------
IsSign(c) == c.children = <<>> /\ TextOf(c) \in {<<"+">>, <<"-">>}

\* C24: the node built from a unary-expression node is a UnaryExpr whose op is
\* the text of the leading + or - token and whose children are exactly one
\* node, the AST of the expression-typed child that follows.
C24_UnaryOpAndSingleChild ==
  (pc = "done" /\ tree.name = "UnaryExpr") =>
    /\ result.type = "unaryExpr"
    /\ IsSign(tree.children[1]) => result.op = TextOf(tree.children[1])
    /\ Len(result.children) = 1
    /\ ExpressionChildren(tree) # <<>>
    /\ result.children[1] = buildAST(ExpressionChildren(tree)[1], query)

\* the same statement for a unary expression made of an Add or Sub token and
\* one expression-typed operand
C24_HoldsForAddSubAndOneOperand ==
  (pc = "done" /\ tree.name = "UnaryExpr" /\ Len(tree.children) = 2
     /\ tree.children[1].name \in {"Add", "Sub"}
     /\ tree.children[2].name \in exprTypes) =>
    /\ result.type = "unaryExpr"
    /\ result.op = TextOf(tree.children[1])
    /\ result.children = <<buildAST(tree.children[2], query)>>

\* ------------------------------------------------------------------------
\* C25
\* ------------------------------------------------------------------------
\* the direct children of a node that are expressions of the grammar
RECURSIVE GrammarExpressionsFrom(_, _)
GrammarExpressionsFrom(kids, i) ==
  IF i > Len(kids) THEN <<>>
  ELSE (IF kids[i].name \in ExprGroup \cup {"Expr"} THEN <<kids[i]>> ELSE <<>>)
       \o GrammarExpressionsFrom(kids, i + 1)

\* C25: the node built from a parenthesized-expression node is a ParenExpr
\* and the node built from a subquery node a Subquery; it never has more than
\* one child, and it has exactly one, the AST of the inner expression,
\* whenever the node has an expression-typed child, of whatever kind.
C25_ParenAndSubqueryRecurseIntoInner ==
  (pc = "done" /\ tree.name \in {"ParenExpr", "SubqueryExpr"}) =>
    /\ result.type = (IF tree.name = "ParenExpr" THEN "parenExpr" ELSE "subquery")
    /\ Len(result.children) <= 1
    /\ ExpressionChildren(tree) # <<>> =>
         /\ Len(result.children) = 1
         /\ Len(GrammarExpressionsFrom(tree.children, 1)) = 1 =>
              result.children[1] = buildAST(ExpressionChildren(tree)[1], query)

\* (up + 5) was built: the child of the ParenExpr is the BinaryExpr
C25_Witness ==
  /\ pc = "done"
  /\ tree.name = "ParenExpr"
  /\ query = <<"(", "u", "p", " ", "+", " ", "5", ")">>
  /\ Len(tree.children) = 1
  /\ tree.children[1].name = "BinaryExpr"
  /\ Len(result.children) = 1
  /\ result.children[1].type = "binaryExpr"
  /\ result.children[1].op = <<"+">>

\* ------------------------------------------------------------------------
\* C26
\* ------------------------------------------------------------------------
\* every node of the AST has the text of some node of the concrete tree
TextsAreSlicesOfConcreteNodes ==
  \A n \in AstNodes(result) : \E c \in NodesOf(tree) : n.text = TextOf(c)

\* C26: every node of the AST carries in text the source slice of the
\* concrete node it was built from, and the text of the root of the AST is
\* the slice of the concrete node handed to the builder, whatever its kind.
C26_TextIsSliceOfNodeBuiltFrom ==
  pc = "done" =>
    /\ TextsAreSlicesOfConcreteNodes
    /\ result.text = TextOf(tree)

\* the part that holds: every text is the slice of a concrete node, and the
\* text of the root is the slice of the node handed over unless that node is
\* of a kind without a case and has one expression-typed child, or is a
\* matrix selector around a function call
C26_HoldsUnlessDelegated ==
  pc = "done" =>
    /\ TextsAreSlicesOfConcreteNodes
    /\ (~(tree.name \notin HandledKinds /\ Len(ExpressionChildren(tree)) = 1)
        /\ ~(tree.name = "MatrixSelector"
               /\ ~HasChildOfKind(tree, "VectorSelector")
               /\ HasChildOfKind(tree, "FunctionCall")))
         => result.text = TextOf(tree)

\* ------------------------------------------------------------------------
\* C27
\* ------------------------------------------------------------------------
MaxOf(S) == IF S = {} THEN 0 ELSE CHOOSE x \in S : \A y \in S : y <= x

RECURSIVE TreeDepth(_)
TreeDepth(node) ==
  1 + MaxOf({TreeDepth(node.children[i]) : i \in 1..Len(node.children)})

RECURSIVE TreeSize(_), ForestSize(_, _)
TreeSize(node) == 1 + ForestSize(node.children, 1)

ForestSize(kids, i) ==
  IF i > Len(kids) THEN 0 ELSE TreeSize(kids[i]) + ForestSize(kids, i + 1)

\* the nodes directly under a ParsedNode: its children, then its args
Below(n) ==
  (IF Has(n, "children") THEN n.children ELSE <<>>)
  \o (IF Has(n, "args") THEN n.args ELSE <<>>)

RECURSIVE AstDepth(_)
AstDepth(n) == 1 + MaxOf({AstDepth(Below(n)[i]) : i \in 1..Len(Below(n))})

\* the number of node objects of a ParsedNode tree, each counted where it
\* appears
RECURSIVE AstSize(_), AstSizeOfAll(_, _)
AstSize(n) == 1 + AstSizeOfAll(Below(n), 1)

AstSizeOfAll(ns, i) ==
  IF i > Len(ns) THEN 0 ELSE AstSize(ns[i]) + AstSizeOfAll(ns, i + 1)

StrictDescendants(node) ==
  UNION {NodesOf(node.children[i]) : i \in 1..Len(node.children)}

\* C27: buildAST returns on every tree; each of its recursive calls is made on
\* a strict descendant of the node at hand, so it is called at most once per
\* concrete node; the ParsedNode tree it returns has at most one node per
\* call and is never deeper than the concrete tree.
C27_RecursionDescendsAndDepthBounded ==
  pc = "done" =>
    /\ Has(result, "type")
    /\ \A n \in NodesOf(tree) :
         \A i \in 1..Len(recursiveCalls(n)) :
           recursiveCalls(n)[i] \in StrictDescendants(n)
    /\ Len(invocations(tree)) <= TreeSize(tree)
    /\ AstSize(result) <= Len(invocations(tree))
    /\ AstDepth(result) <= TreeDepth(tree)

\* a matrix selector with a vector selector and a call under it was built:
\* two calls of buildAST, one node returned, from a tree four levels deep
C27_Witness ==
  /\ pc = "done"
  /\ tree.name = "MatrixSelector"
  /\ HasChildOfKind(tree, "VectorSelector")
  /\ HasChildOfKind(tree, "FunctionCall")
  /\ TreeDepth(tree) >= 4
  /\ Len(invocations(tree)) = 2
  /\ AstSize(result) = 1
  /\ AstDepth(result) = 1

\* ------------------------------------------------------------------------
\* Calling formatDuration on a positive amount and parseDuration on what it
\* rendered
\* ------------------------------------------------------------------------
\* the sizes of ms, s, m, h and d in milliseconds
FormatSizes == {1, 1000, 60000, 3600000, 86400000}

FormatCounts == {1, 2, 7, 23, 59, 365, 999}

FormatRemainders(size) == {0, 1, size \div 2, size - 1}

\* whole counts of a unit, alone and with a remainder below the unit
FormatInputs ==
  UNION {{Add(Times(Num(0, size), k), Num(0, r)) :
            k \in FormatCounts, r \in FormatRemainders(size)} :
         size \in FormatSizes}

InitFormat ==
  /\ locals \in {[ms |-> x] : x \in FormatInputs}
  /\ durationStr = <<>>
  /\ query = <<>>
  /\ tree = NoTree
  /\ fault = NoFault
  /\ pc = "format"
  /\ result = NoResult
  /\ buildCalls = 0
  /\ ast = NoAst
  /\ log = <<>>

CallFormatDuration ==
  /\ pc = "format"
  /\ durationStr' = formatDuration(locals.ms)
  /\ pc' = "parse"
  /\ UNCHANGED <<query, tree, fault, result, buildCalls, ast, log, locals>>

ParseFormatted ==
  /\ pc = "parse"
  /\ result' = parseDuration(durationStr)
  /\ pc' = "done"
  /\ UNCHANGED <<query, tree, fault, durationStr, buildCalls, ast, log, locals>>

NextFormat == CallFormatDuration \/ ParseFormatted

SpecFormat == InitFormat /\ [][NextFormat]_vars

\* ------------------------------------------------------------------------
\* C28
\* ------------------------------------------------------------------------
RenderedUnits ==
  << [symbol |-> <<"d">>, size |-> 86400000],
     [symbol |-> <<"h">>, size |-> 3600000],
     [symbol |-> <<"m">>, size |-> 60000],
     [symbol |-> <<"s">>, size |-> 1000] >>

\* the largest unit not exceeding ms; milliseconds below one second
LargestUnit(ms) ==
  LET fits == {i \in 1..Len(RenderedUnits) : Geq(ms, Num(0, RenderedUnits[i].size))}
  IN IF fits = {} THEN [symbol |-> <<"m", "s">>, size |-> 1]
     ELSE RenderedUnits[CHOOSE i \in fits : \A j \in fits : i <= j]

CountPart(text, ms) == SubSeq(text, 1, Len(text) - Len(LargestUnit(ms).symbol))

SymbolPart(text, ms) ==
  SubSeq(text, Len(text) - Len(LargestUnit(ms).symbol) + 1, Len(text))

WholeUnits(text, ms) ==
  Times(Num(0, LargestUnit(ms).size), parseInt(CountPart(text, ms)))

NextWholeUnits(text, ms) ==
  Times(Num(0, LargestUnit(ms).size), parseInt(CountPart(text, ms)) + 1)

\* text is the decimal numeral of floor(ms / u) followed by u's symbol
RendersFloor(text, ms) ==
  /\ Len(text) > Len(LargestUnit(ms).symbol)
  /\ SymbolPart(text, ms) = LargestUnit(ms).symbol
  /\ \A i \in 1..Len(CountPart(text, ms)) : CountPart(text, ms)[i] \in Digits
  /\ CountPart(text, ms)[1] # "0"
  /\ Geq(ms, WholeUnits(text, ms))
  /\ ~Geq(ms, NextWholeUnits(text, ms))

OneAndAHalfHours == Num(0, 5400000)

\* C28: for a positive ms, formatDuration renders floor(ms / u) and the symbol
\* of the largest unit u of d, h, m, s not exceeding ms (ms itself with "ms"
\* below a second), never weeks or years; parsing the rendering back gives at
\* most ms, and ms exactly when ms is a whole number of u; 5400000 renders as
\* "1h".
C28_FormatDurationFloorsLargestUnit ==
  /\ pc \in {"parse", "done"} =>
       /\ RendersFloor(durationStr, locals.ms)
       /\ \A i \in 1..Len(durationStr) : durationStr[i] \notin {"w", "y"}
       /\ locals.ms = OneAndAHalfHours => durationStr = <<"1", "h">>
  /\ pc = "done" =>
       /\ Geq(locals.ms, result)
       /\ (result = locals.ms) <=> (locals.ms = WholeUnits(durationStr, locals.ms))

\* 1h30m was rendered as "1h" and parsed back as one hour, less than given
C28_Witness ==
  /\ pc = "done"
  /\ locals.ms = OneAndAHalfHours
  /\ durationStr = <<"1", "h">>
  /\ result = Num(0, 3600000)
  /\ result # locals.ms

\* a whole number of days beyond a week and a year was rendered in days and
\* parsed back unchanged
C28_WholeDaysRoundTrip ==
  /\ pc = "done"
  /\ durationStr = <<"3", "6", "5", "d">>
  /\ result = locals.ms
  /\ result = units.y

\* ------------------------------------------------------------------------
\* C29
\* ------------------------------------------------------------------------
\* a occurs in b as a run of consecutive characters
IsSubstring(a, b) ==
  \E i \in 0..(Len(b) - Len(a)) : SubSeq(b, i + 1, i + Len(a)) = a

RECURSIVE TextsNest(_)
TextsNest(n) ==
  \A i \in 1..Len(Below(n)) :
    /\ IsSubstring(Below(n)[i].text, n.text)
    /\ TextsNest(Below(n)[i])

\* C29: in the AST built for a query the text of every child and of every
\* argument is a contiguous substring of the text of its parent, and the text
\* of the root is a contiguous substring of the query, whatever wrappers were
\* unwrapped and transparent kinds collapsed on the way.
C29_TextsNestAlongAst ==
  pc = "done" =>
    /\ IsSubstring(result.text, query)
    /\ TextsNest(result)

\* a call under a matrix selector was returned in its place, with an argument
\* whose text lies strictly inside the call's text, itself shorter than the
\* query
C29_Witness ==
  /\ pc = "done"
  /\ tree.name = "MatrixSelector"
  /\ result.type = "call"
  /\ Len(result.args) >= 1
  /\ Len(result.args[1].text) < Len(result.text)
  /\ Len(result.text) < Len(query)
  /\ TextsNest(result)

\* a node of a kind without a case, holding one expression, was collapsed
\* into that expression
C29_CollapsedKind ==
  /\ pc = "done"
  /\ tree.name = "OffsetExpr"
  /\ Len(tree.children) >= 2
  /\ result.type = "vectorSelector"
  /\ Len(result.text) < Len(query)

\* ------------------------------------------------------------------------
\* PrometheusClient.calculateStep and the step parameter of queryRange
\* ------------------------------------------------------------------------
\* Math.max(a, b) and Math.ceil(a / b) on integers, b positive
mathMax(a, b) == IF a >= b THEN a ELSE b

ceilDiv(a, b) == (a + b - 1) \div b

\* calculateStep with the last tier rounded down to whole hours
calculateStepRoundingDown(timeRange) ==
  LET duration == timeRange.end - timeRange.start
      step == mathMax(1, duration \div 250)
  IN IF step < 15 THEN 15
     ELSE IF step < 30 THEN 30
     ELSE IF step < 60 THEN 60
     ELSE IF step < 300 THEN 300
     ELSE IF step < 900 THEN 900
     ELSE IF step < 3600 THEN 3600
     ELSE (step \div 3600) * 3600

calculateStep(timeRange) ==
  LET duration == timeRange.end - timeRange.start
      step == mathMax(1, duration \div 250)
  IN IF step < 15 THEN 15
     ELSE IF step < 30 THEN 30
     ELSE IF step < 60 THEN 60
     ELSE IF step < 300 THEN 300
     ELSE IF step < 900 THEN 900
     ELSE IF step < 3600 THEN 3600
     ELSE ceilDiv(step, 3600) * 3600

\* timeRange.step || this.calculateStep(timeRange)
stepParam(timeRange) ==
  IF Has(timeRange, "step") /\ timeRange.step # 0
  THEN timeRange.step
  ELSE calculateStep(timeRange)

\* the parameters queryRange sends
queryRangeParams(q, timeRange) ==
  [query |-> q, start |-> timeRange.start, end |-> timeRange.end,
   step |-> stepParam(timeRange)]

\* ------------------------------------------------------------------------
\* Calling calculateStep and queryRange on a time range
\* ------------------------------------------------------------------------
\* step counts around which the tiers change
StepEdges == {1, 15, 30, 60, 300, 900, 3600, 3601, 7200, 7201}

\* the intervals the client offers, 15m to 7d, and a year, in seconds
OfferedIntervals == {900, 3600, 10800, 21600, 43200, 86400, 604800, 31536000}

StepDurations ==
  {250 * e + d : e \in StepEdges, d \in {-1, 0, 1, 249}}
  \cup OfferedIntervals
  \cup {-3600, -1, 0, 1}

StepStarts == {0, 1700000000}

\* time ranges as the pickers make them, and with a step of the caller's
StepRanges ==
  {[start |-> s, end |-> s + d] : s \in StepStarts, d \in StepDurations}
  \cup {[start |-> 0, end |-> d, step |-> p] : d \in {0, 3600}, p \in {0, 1, 60}}

InitStep ==
  /\ locals \in StepRanges
  /\ query = Up
  /\ tree = NoTree
  /\ fault = NoFault
  /\ durationStr = <<>>
  /\ pc = "call"
  /\ result = NoResult
  /\ buildCalls = 0
  /\ ast = NoAst
  /\ log = <<>>

CallCalculateStep ==
  /\ pc = "call"
  /\ result' = calculateStep(locals)
  /\ pc' = "calculated"
  /\ UNCHANGED <<query, tree, fault, durationStr, buildCalls, ast, log, locals>>

CallQueryRange ==
  /\ pc = "call"
  /\ log' = <<queryRangeParams(query, locals)>>
  /\ pc' = "requested"
  /\ UNCHANGED <<query, tree, fault, durationStr, result, buildCalls, ast, locals>>

NextStep == CallCalculateStep \/ CallQueryRange

SpecStep == InitStep /\ [][NextStep]_vars

\* ------------------------------------------------------------------------
\* C30
\* ------------------------------------------------------------------------
NiceSteps == {15, 30, 60, 300, 900, 3600}

DurationOf(timeRange) == timeRange.end - timeRange.start

IsNiceStep(n) == n \in NiceSteps \/ (n > 0 /\ n % 3600 = 0)

\* the number of steps that fit into the range
StepsAcross(timeRange, n) == DurationOf(timeRange) \div n

\* C30: calculateStep returns one of 15, 30, 60, 300, 900, 3600 or a positive
\* multiple of 3600 for every start and end, end <= start included; the step
\* is at least floor((end - start) / 250), so a range query given no step of
\* its own asks for at most 250 steps across its range; a range that is no
\* shorter never gets a smaller step.
C30_CalculateStepNiceBoundedMonotone ==
  /\ pc = "calculated" =>
       /\ result > 0
       /\ IsNiceStep(result)
       /\ result >= DurationOf(locals) \div 250
       /\ \A other \in StepRanges :
            DurationOf(other) <= DurationOf(locals) => calculateStep(other) <= result
  /\ (pc = "requested" /\ ~Has(locals, "step")) =>
       /\ log[1].step > 0
       /\ IsNiceStep(log[1].step)
       /\ StepsAcross(locals, log[1].step) <= 250

\* a step beyond an hour was rounded up to whole hours for a range of
\* 250 * 3601 seconds, and end <= start got the smallest step
C30_Witness ==
  /\ pc = "calculated"
  /\ DurationOf(locals) = 250 * 3601
  /\ result = 7200

C30_EndNotAfterStart ==
  /\ pc = "calculated"
  /\ locals.end < locals.start
  /\ result = 15

\* a range query over the last seven days asks for 168 steps of an hour
C30_SevenDaysRequested ==
  /\ pc = "requested"
  /\ DurationOf(locals) = 604800
  /\ log[1].step = 3600
  /\ StepsAcross(locals, log[1].step) = 168

====
